---- MODULE Spec2Model ----
(***************************************************************************)
(* A model of anthropic-bridge: the per-request streaming translators of   *)
(* the four adapters (OpenAIProvider, CopilotProvider chat, the shared     *)
(* stream_responses_api, CodexClient), the OAuth credential lifecycle      *)
(* (get_auth) and the provider dispatch of AnthropicBridge.                *)
(***************************************************************************)
EXTENDS Integers, Sequences, FiniteSets, TLC

\* ------------------------------------------------------------------ bounds

\* Upstream frames (chunks, SSE events, notifications) one request consumes.
MaxFrames == 3

\* Concurrent callers of one credential store, get_auth calls, clock ticks.
NumCallers == 2
MaxCalls == 2
MaxTicks == 1
\* time.time() at the start, and the seconds one tick advances it
StartTime == 1000
TickSeconds == 45
\* POST /v1/messages requests one behaviour sends to the dispatcher
MaxRequests == 2
\* notifications each of two handle calls on one CodexClient reads
MaxNotifications == 2
\* chunks the subprocess writes to the pty during one handle call
MaxChunks == 257
\* the largest thinking budget_tokens a request carries
MaxBudget == 40000

\* ------------------------------------------------------------ state

VARIABLES
    adapter,            \* which adapter serves the request
    pc,                 \* position of the request's generator
    out,                \* the downstream events yielded so far, in order
    text_started, text_idx,
    thinking_started, thinking_idx,
    cur_idx,
    tools,              \* dict: slot index / call_id -> tool record
    tool_order,         \* insertion order of the keys of tools
    usage,              \* last upstream usage, or NoneUsage
    had_content,        \* CopilotProvider._stream_chat only
    reasoning_opaque,   \* CopilotProvider._stream_chat only
    first_data_seen,    \* CopilotProvider._stream_chat only
    nread,              \* upstream frames consumed
    fault,              \* the exception raised out of the generator, "" if none
    failure,            \* the structural failure the request met, "" if none
    connections,        \* upstream connections / subprocesses opened
    active_tools,       \* CodexClient._active_tools: item key -> tool id
    tool_counter,       \* CodexClient._tool_counter
    wire,               \* CodexClient: what was written to and read from the pty
    session,            \* CodexClient.handle: pty, subprocess, reader task
    \* --- the OAuth credential lifecycle (openai/auth.py, OpenAIProvider.handle)
    now,                \* time.time()
    auth_file,          \* ~/.codex/auth.json: exists, tokens.access_token, refresh
    cache,              \* OpenAIProvider._api_key, _api_key_expires_at
    apc,                \* per caller: position inside handle / get_auth
    loc,                \* per caller: the locals of get_auth
    ret,                \* per caller: what the last get_auth call returned
    refresh_count,      \* refresh exchanges sent to TOKEN_URL
    ncalls,             \* get_auth calls started
    token_seq,          \* tokens the authorization endpoint has issued
    \* --- the dispatcher (server.py, AnthropicBridge)
    config,             \* ProxyConfig: openrouter_api_key, copilot_token
    _openrouter_clients, \* dict: model -> OpenRouterProvider
    _openai_clients,    \* dict: model -> OpenAIProvider
    _copilot_clients,   \* dict: model -> CopilotProvider
    response,           \* what the last POST /v1/messages returned
    request,            \* the last POST /v1/messages and the state it met
    handled,            \* provider.handle(body) generators started
    nrequests,          \* POST /v1/messages requests received
    \* --- one CodexClient serving two handle calls (codex.py)
    client,             \* _active_tools, _tool_counter, each call's locals
    \* --- the pty reader task, output_queue and PtyLineReader (codex.py)
    pipe,               \* read_master, output_queue, what readline has taken
    \* --- one call of a function without state (utils.py, PtyLineReader)
    calc                \* its arguments and what it returned

streamVars == <<adapter, pc, out, text_started, text_idx, thinking_started,
                thinking_idx, cur_idx, tools, tool_order, usage, had_content,
                reasoning_opaque, first_data_seen, nread, fault, failure,
                connections,
                active_tools, tool_counter, wire, session>>

authVars == <<now, auth_file, cache, apc, loc, ret, refresh_count, ncalls,
              token_seq>>

dispVars == <<config, _openrouter_clients, _openai_clients, _copilot_clients,
              response, request, handled, nrequests>>

vars == <<streamVars, authVars, dispVars, client, pipe, calc>>

\* what an action of one part leaves alone
notStream == <<authVars, dispVars, client, pipe, calc>>
notAuth == <<streamVars, dispVars, client, pipe, calc>>
notDisp == <<streamVars, now, cache, apc, loc, ret, refresh_count, ncalls,
             token_seq, client, pipe, calc>>
notClient == <<streamVars, authVars, dispVars, pipe, calc>>
notPipe == <<streamVars, authVars, dispVars, client, calc>>
notCalc == <<streamVars, authVars, dispVars, client, pipe>>

\* the dispatcher before any request; no request reaches it in the
\* specifications of the adapters and of the credential lifecycle
IdleDisp ==
    /\ config = <<>> /\ _openrouter_clients = <<>> /\ _openai_clients = <<>>
    /\ _copilot_clients = <<>> /\ response = <<>> /\ request = <<>>
    /\ handled = 0 /\ nrequests = 0

\* no CodexClient is shared in the other specifications
IdleClient == client = <<>>

\* no pty is read in the other specifications
IdlePipe == pipe = <<>>

\* no function is called on its own in the other specifications
IdleCalc == calc = <<>>

\* ------------------------------------------------------------ events

NoUsage == [absent |-> TRUE]
NoneUsage == [none |-> TRUE]
Usage2(i, o) == [input_tokens |-> i, output_tokens |-> o]
Usage4(i, cc, cr, o) ==
    [input_tokens |-> i, cache_creation_input_tokens |-> cc,
     cache_read_input_tokens |-> cr, output_tokens |-> o]

\* _sse(event, data): one downstream frame.
Sse(t, i, k, txt, id, nm, u) ==
    [type |-> t, index |-> i, kind |-> k, text |-> txt, id |-> id,
     name |-> nm, usage |-> u]

MessageStart(u) == Sse("message_start", -1, "", "", "", "", u)
Ping == Sse("ping", -1, "", "", "", "", NoUsage)
BlockStart(i, k, id, nm) == Sse("content_block_start", i, k, "", id, nm, NoUsage)
BlockDelta(i, k, txt) == Sse("content_block_delta", i, k, txt, "", "", NoUsage)
BlockStop(i) == Sse("content_block_stop", i, "", "", "", "", NoUsage)
ErrorEvent(msg) == Sse("error", -1, "api_error", msg, "", "", NoUsage)
MessageDelta(reason, u) == Sse("message_delta", -1, reason, "", "", "", u)
MessageStop == Sse("message_stop", -1, "", "", "", "", NoUsage)
\* the raw frame "data: [DONE]\n\n": it carries no event name
DoneMarker == Sse("[DONE]", -1, "", "", "", "", NoUsage)

\* ------------------------------------------------- the local stream state

Cur ==
    [out |-> out, text_started |-> text_started, text_idx |-> text_idx,
     thinking_started |-> thinking_started, thinking_idx |-> thinking_idx,
     cur_idx |-> cur_idx, tools |-> tools, tool_order |-> tool_order,
     usage |-> usage, had_content |-> had_content,
     reasoning_opaque |-> reasoning_opaque,
     first_data_seen |-> first_data_seen,
     active_tools |-> active_tools, tool_counter |-> tool_counter]

Commit(s) ==
    /\ out' = s.out
    /\ text_started' = s.text_started
    /\ text_idx' = s.text_idx
    /\ thinking_started' = s.thinking_started
    /\ thinking_idx' = s.thinking_idx
    /\ cur_idx' = s.cur_idx
    /\ tools' = s.tools
    /\ tool_order' = s.tool_order
    /\ usage' = s.usage
    /\ had_content' = s.had_content
    /\ reasoning_opaque' = s.reasoning_opaque
    /\ first_data_seen' = s.first_data_seen
    /\ active_tools' = s.active_tools
    /\ tool_counter' = s.tool_counter

Emit(s, e) == [s EXCEPT !.out = Append(@, e)]

RECURSIVE EmitAll(_, _)
EmitAll(s, es) ==
    IF es = <<>> THEN s ELSE EmitAll(Emit(s, Head(es)), Tail(es))

\* thinking_idx = cur_idx; cur_idx += 1; content_block_start(thinking)
OpenThinking(s) ==
    Emit([s EXCEPT !.thinking_idx = s.cur_idx, !.cur_idx = s.cur_idx + 1,
                   !.thinking_started = TRUE],
         BlockStart(s.cur_idx, "thinking", "", ""))

\* signature_delta, content_block_stop, thinking_started = False
CloseThinking(s, sig) ==
    [EmitAll(s, <<BlockDelta(s.thinking_idx, "signature_delta", sig),
                  BlockStop(s.thinking_idx)>>)
        EXCEPT !.thinking_started = FALSE]

\* text_idx = cur_idx; cur_idx += 1; content_block_start(text)
OpenText(s) ==
    Emit([s EXCEPT !.text_idx = s.cur_idx, !.cur_idx = s.cur_idx + 1,
                   !.text_started = TRUE],
         BlockStart(s.cur_idx, "text", "", ""))

\* content_block_stop(text_idx); text_started = False
CloseText(s) ==
    [Emit(s, BlockStop(s.text_idx)) EXCEPT !.text_started = FALSE]

\* for t in tools.values(): if t["started"] and not t["closed"]: stop
RECURSIVE StopOpenTools(_, _, _)
StopOpenTools(s, keys, mark) ==
    IF keys = <<>> THEN s
    ELSE LET k == Head(keys)
             t == s.tools[k]
             s1 == IF t.started /\ ~t.closed
                   THEN LET e == Emit(s, BlockStop(t.block_idx))
                        IN IF mark
                           THEN [e EXCEPT !.tools[k].closed = TRUE]
                           ELSE e
                   ELSE s
         IN StopOpenTools(s1, Tail(keys), mark)

\* The closing section after the try block, shared by the adapters:
\* close the thinking block, the text block, every started tool block.
CloseBlocks(s, sig) ==
    LET s1 == IF s.thinking_started
              THEN EmitAll(s, <<BlockDelta(s.thinking_idx, "signature_delta", sig),
                                BlockStop(s.thinking_idx)>>)
              ELSE s
        s2 == IF s1.text_started THEN Emit(s1, BlockStop(s1.text_idx)) ELSE s1
    IN StopOpenTools(s2, s2.tool_order, FALSE)

\* ------------------------------------------------------ upstream inputs

\* usage values an upstream may report
UsageValues == {Usage2(5, 7)}

\* One entry of delta.tool_calls: "" stands for an absent / None / empty
\* field (the code tests all of them by truthiness).
ToolCallFrag(i, d, n, a) == [index |-> i, id |-> d, name |-> n, arguments |-> a]

ToolCallFrags ==
    {ToolCallFrag(i, "", n, a) : i \in {0, 1}, n \in {"", "run"}, a \in {"", "{}"}}
    \cup {ToolCallFrag(i, "c1", "run", a) : i \in {0, 1}, a \in {"", "{}"}}

\* One chat-completion chunk.  choices: "one" (a choice with a delta),
\* "empty" (choices: []), "absent" (no choices key).
Chunk(u, ch, r, c, tcs, f, op) ==
    [usage |-> u, choices |-> ch, reasoning |-> r, content |-> c,
     tool_calls |-> tcs, finish |-> f, opaque |-> op]

ChatChunks ==
    {Chunk(u, "empty", "", "", <<>>, "", "") : u \in UsageValues}
    \cup {Chunk(NoneUsage, "one", "r", "", <<>>, "", ""),
          Chunk(NoneUsage, "one", "", "t", <<>>, "", ""),
          Chunk(NoneUsage, "one", "r", "t", <<>>, "", "")}
    \cup {Chunk(NoneUsage, "one", "", "", <<tc>>, "", "") : tc \in ToolCallFrags}
    \cup {Chunk(NoneUsage, "one", "", "",
                <<ToolCallFrag(0, "c1", "run", ""), ToolCallFrag(1, "c2", "run", "{}")>>,
                "", "")}
    \cup {Chunk(NoneUsage, "one", "", "", <<>>, f, "") : f \in {"tool_calls", "stop"}}
    \cup {Chunk(Usage4(5, 1, 2, 7), "absent", "", "", <<>>, "", ""),
          Chunk(NoneUsage, "one", "r", "", <<>>, "", "sig")}

\* f"tool_{int(time.time())}_{idx}"
AutoToolId(idx) == IF idx = 0 THEN "tool_t_0" ELSE "tool_t_1"

\* ------------------------------------------- OpenAIProvider._stream_response

\* if reasoning: open the thinking block if none is open, thinking_delta
OpenAIReasoning(s, reasoning) ==
    IF reasoning = "" THEN s
    ELSE LET s1 == IF ~s.thinking_started THEN OpenThinking(s) ELSE s
         IN Emit(s1, BlockDelta(s1.thinking_idx, "thinking_delta", reasoning))

\* if delta.content: close thinking, open text if none is open, text_delta
OpenAIContent(s, content) ==
    IF content = "" THEN s
    ELSE LET s1 == IF s.thinking_started THEN CloseThinking(s, "") ELSE s
             s2 == IF ~s1.text_started THEN OpenText(s1) ELSE s1
         IN Emit(s2, BlockDelta(s2.text_idx, "text_delta", content))

\* a new slot: close thinking and text, reserve block_idx = cur_idx
OpenAINewSlot(s, tc) ==
    LET a == IF s.thinking_started THEN CloseThinking(s, "") ELSE s
        b == IF a.text_started THEN CloseText(a) ELSE a
    IN [b EXCEPT
          !.tools = (tc.index :>
                       [id |-> IF tc.id # "" THEN tc.id ELSE AutoToolId(tc.index),
                        name |-> "", block_idx |-> b.cur_idx,
                        started |-> FALSE, closed |-> FALSE]) @@ b.tools,
          !.tool_order = Append(@, tc.index),
          !.cur_idx = b.cur_idx + 1]

\* a variant that starts a block for every fragment that carries a name
ChatSlotFragmentRestart(s, tc) ==
    LET idx == tc.index
        s1 == IF tc.id # "" THEN [s EXCEPT !.tools[idx].id = tc.id] ELSE s
        s2 == IF tc.name # ""
              THEN [Emit(s1, BlockStart(s1.tools[idx].block_idx, "tool_use",
                                        s1.tools[idx].id, tc.name))
                      EXCEPT !.tools[idx].name = tc.name,
                             !.tools[idx].started = TRUE]
              ELSE s1
    IN IF tc.arguments # "" /\ s2.tools[idx].started
       THEN Emit(s2, BlockDelta(s2.tools[idx].block_idx, "input_json_delta",
                                tc.arguments))
       ELSE s2

\* the slot's id, its content_block_start once a name is known, its arguments
ChatSlotFragment(s, tc) ==
    LET idx == tc.index
        s1 == IF tc.id # "" THEN [s EXCEPT !.tools[idx].id = tc.id] ELSE s
        s2 == IF tc.name # "" /\ ~s1.tools[idx].started
              THEN [Emit(s1, BlockStart(s1.tools[idx].block_idx, "tool_use",
                                        s1.tools[idx].id, tc.name))
                      EXCEPT !.tools[idx].name = tc.name,
                             !.tools[idx].started = TRUE]
              ELSE s1
    IN IF tc.arguments # "" /\ s2.tools[idx].started
       THEN Emit(s2, BlockDelta(s2.tools[idx].block_idx, "input_json_delta",
                                tc.arguments))
       ELSE s2

OpenAIToolCall(s, tc) ==
    ChatSlotFragment(IF tc.index \notin DOMAIN s.tools THEN OpenAINewSlot(s, tc) ELSE s,
                     tc)

RECURSIVE OpenAIToolCalls(_, _)
OpenAIToolCalls(s, tcs) ==
    IF tcs = <<>> THEN s
    ELSE OpenAIToolCalls(OpenAIToolCall(s, Head(tcs)), Tail(tcs))

\* if finish == "tool_calls": stop every started, not yet closed tool block
ChatFinish(s, finish) ==
    IF finish = "tool_calls" THEN StopOpenTools(s, s.tool_order, TRUE) ELSE s

\* the body of "async for chunk in stream"
OpenAIChunk(s, c) ==
    LET s0 == IF c.usage # NoneUsage THEN [s EXCEPT !.usage = c.usage] ELSE s
    IN IF c.choices # "one" THEN s0
       ELSE ChatFinish(
              OpenAIToolCalls(
                OpenAIContent(OpenAIReasoning(s0, c.reasoning), c.content),
                c.tool_calls),
              c.finish)

\* usage.get(...) if usage else 0
FinalUsage2(u) == IF u = NoneUsage THEN Usage2(0, 0) ELSE u

\* the except branch: error, message_stop, [DONE]
OpenAIErrorPath(s, msg) ==
    EmitAll(s, <<ErrorEvent(msg), MessageStop, DoneMarker>>)

\* after the try block: close blocks, message_delta, message_stop, [DONE]
OpenAIFinish(s) ==
    EmitAll(CloseBlocks(s, ""),
            <<MessageDelta("end_turn", FinalUsage2(s.usage)), MessageStop, DoneMarker>>)

\* --------------------------------------------- CopilotProvider._stream_chat

\* One line of the Copilot response body, after strip():
\*   data    "data: <json>"        malformed "data: <not json>"
\*   done    "data: [DONE]"        event     "event: ..." or ": comment"
\*   id      "id: ..."             plain     anything else (not SSE)
CopilotLines ==
    {[kind |-> "data", chunk |-> c] : c \in ChatChunks}
    \cup {[kind |-> k, chunk |-> Chunk(NoneUsage, "absent", "", "", <<>>, "", "")] :
            k \in {"malformed", "done", "event", "id", "plain"}}

\* What raises inside the try block while a line is handled: a non-SSE
\* first line, and choices: [] (data.get("choices", [{}])[0] on an empty list).
CopilotLineRaises(s, ln) ==
    \/ ln.kind = "plain" /\ ~s.first_data_seen
    \/ ln.kind = "data" /\ ln.chunk.choices = "empty"

CopilotLineFault(s, ln) ==
    IF ln.kind = "plain" THEN "Non-SSE response from Copilot API" ELSE "IndexError"

CopilotReasoning(s, reasoning) ==
    IF reasoning = "" THEN s
    ELSE LET s0 == [s EXCEPT !.had_content = TRUE]
             s1 == IF ~s0.thinking_started THEN OpenThinking(s0) ELSE s0
         IN Emit(s1, BlockDelta(s1.thinking_idx, "thinking_delta", reasoning))

CopilotContent(s, content) ==
    IF content = "" THEN s
    ELSE LET s0 == [s EXCEPT !.had_content = TRUE]
             s1 == IF s0.thinking_started
                   THEN CloseThinking(s0, s0.reasoning_opaque)
                   ELSE s0
             s2 == IF ~s1.text_started THEN OpenText(s1) ELSE s1
         IN Emit(s2, BlockDelta(s2.text_idx, "text_delta", content))

\* a new slot: close the text block, reserve block_idx = cur_idx
CopilotNewSlot(s, tc) ==
    LET b == IF s.text_started THEN CloseText(s) ELSE s
    IN [b EXCEPT
          !.tools = (tc.index :>
                       [id |-> IF tc.id # "" THEN tc.id ELSE AutoToolId(tc.index),
                        name |-> tc.name, block_idx |-> b.cur_idx,
                        started |-> FALSE, closed |-> FALSE]) @@ b.tools,
          !.tool_order = Append(@, tc.index),
          !.cur_idx = b.cur_idx + 1]

\* Copilot never rewrites t["id"] after the slot was created
CopilotSlotFragment(s, tc) ==
    LET idx == tc.index
        s2 == IF tc.name # "" /\ ~s.tools[idx].started
              THEN [Emit(s, BlockStart(s.tools[idx].block_idx, "tool_use",
                                       s.tools[idx].id, tc.name))
                      EXCEPT !.tools[idx].name = tc.name,
                             !.tools[idx].started = TRUE]
              ELSE s
    IN IF tc.arguments # "" /\ s2.tools[idx].started
       THEN Emit(s2, BlockDelta(s2.tools[idx].block_idx, "input_json_delta",
                                tc.arguments))
       ELSE s2

CopilotToolCall(s, tc) ==
    LET s0 == [s EXCEPT !.had_content = TRUE]
    IN CopilotSlotFragment(IF tc.index \notin DOMAIN s0.tools
                           THEN CopilotNewSlot(s0, tc) ELSE s0,
                           tc)

RECURSIVE CopilotToolCalls(_, _)
CopilotToolCalls(s, tcs) ==
    IF tcs = <<>> THEN s
    ELSE CopilotToolCalls(CopilotToolCall(s, Head(tcs)), Tail(tcs))

\* one parsed data line (choices is not the empty list)
CopilotData(s, c) ==
    LET s0 == IF c.usage # NoneUsage THEN [s EXCEPT !.usage = c.usage] ELSE s
        s1 == IF c.opaque # "" THEN [s0 EXCEPT !.reasoning_opaque = c.opaque] ELSE s0
    IN ChatFinish(
         CopilotToolCalls(
           CopilotContent(CopilotReasoning(s1, c.reasoning), c.content),
           c.tool_calls),
         c.finish)

\* the body of "for line in lines" for a line that does not raise
CopilotLine(s, ln) ==
    CASE ln.kind = "event" -> [s EXCEPT !.first_data_seen = TRUE]
      [] ln.kind \in {"id", "plain"} -> s
      [] ln.kind \in {"done", "malformed"} -> [s EXCEPT !.first_data_seen = TRUE]
      [] OTHER -> CopilotData([s EXCEPT !.first_data_seen = TRUE], ln.chunk)

\* usage.get(key, 0) if usage else 0, for the four counters
FinalUsage4(u) ==
    IF u = NoneUsage THEN Usage4(0, 0, 0, 0)
    ELSE Usage4(u.input_tokens,
                IF "cache_creation_input_tokens" \in DOMAIN u
                THEN u.cache_creation_input_tokens ELSE 0,
                IF "cache_read_input_tokens" \in DOMAIN u
                THEN u.cache_read_input_tokens ELSE 0,
                u.output_tokens)

\* the except branch: error, message_delta(end_turn, zero usage), message_stop
CopilotErrorPath(s, msg) ==
    EmitAll(s, <<ErrorEvent(msg), MessageDelta("end_turn", Usage4(0, 0, 0, 0)),
                 MessageStop>>)

\* stop_reason = "tool_use" if tools else "end_turn"
StopReason(s) == IF DOMAIN s.tools # {} THEN "tool_use" ELSE "end_turn"

\* after the try block
CopilotFinish(s) ==
    LET s0 == IF ~s.had_content /\ DOMAIN s.tools = {}
              THEN Emit(s, ErrorEvent("No content received from Copilot API"))
              ELSE s
    IN EmitAll(CloseBlocks(s0, s0.reasoning_opaque),
               <<MessageDelta(StopReason(s0), FinalUsage4(s0.usage)), MessageStop>>)

\* ------------------------------------------------------ yield_error_events

\* a variant without the message_delta
YieldErrorNoDelta(msg) ==
    <<MessageStart(Usage4(0, 0, 0, 0)), ErrorEvent(msg), MessageStop>>

yield_error_events(msg) ==
    <<MessageStart(Usage4(0, 0, 0, 0)), ErrorEvent(msg),
      MessageDelta("end_turn", Usage4(0, 0, 0, 0)), MessageStop>>

\* ------------------------------------------------------ stream_responses_api

\* One upstream SSE event (an "event:" line and its "data:" line), or a line
\* the loop skips.  call_id "" stands for an absent call_id.
RespEvent(t, it, cid, nm, d, u) ==
    [type |-> t, item |-> it, call_id |-> cid, name |-> nm, delta |-> d, usage |-> u]

CallIds == {"c1", "c2"}

ResponsesEvents ==
    {RespEvent("response.output_text.delta", "", "", "", d, NoneUsage) : d \in {"", "t"}}
    \cup {RespEvent(t, "", "", "", "r", NoneUsage) :
            t \in {"response.reasoning_summary_text.delta", "response.reasoning.delta"}}
    \cup {RespEvent("response.output_item.added", "function_call", c, "run", "", NoneUsage) :
            c \in CallIds \cup {""}}
    \cup {RespEvent("response.output_item.added", "message", "", "", "", NoneUsage)}
    \cup {RespEvent("response.function_call_arguments.delta", "", c, "", "{}", NoneUsage) :
            c \in CallIds}
    \cup {RespEvent("response.output_item.done", "function_call", c, "", d, NoneUsage) :
            c \in CallIds, d \in {"", "{}"}}
    \cup {RespEvent("response.output_item.done", "message", "", "", "", NoneUsage)}
    \cup {RespEvent("response.completed", "", "", "", "", u) :
            u \in UsageValues \cup {NoneUsage}}
    \cup {RespEvent(t, "", "", "", "", NoneUsage) : t \in {"malformed", "response.created"}}

\* f"tool_{int(time.time())}"
AutoCallId == "tool_t"

RespTextDelta(s, delta) ==
    IF delta = "" THEN s
    ELSE LET s1 == IF s.thinking_started THEN CloseThinking(s, "") ELSE s
             s2 == IF ~s1.text_started THEN OpenText(s1) ELSE s1
         IN Emit(s2, BlockDelta(s2.text_idx, "text_delta", delta))

RespReasoningDelta(s, delta) ==
    IF delta = "" THEN s
    ELSE LET s1 == IF ~s.thinking_started THEN OpenThinking(s) ELSE s
         IN IF s1.thinking_started
            THEN Emit(s1, BlockDelta(s1.thinking_idx, "thinking_delta", delta))
            ELSE s1

\* tools[call_id] = {...}: a new key is appended, a known key is overwritten
RespItemAdded(s, ev) ==
    IF ev.item # "function_call" THEN s
    ELSE LET call_id == IF ev.call_id = "" THEN AutoCallId ELSE ev.call_id
             rec == [id |-> call_id, name |-> ev.name, block_idx |-> s.cur_idx,
                     started |-> TRUE, closed |-> FALSE]
             s1 == [s EXCEPT
                      !.tools = (call_id :> rec) @@ [k \in DOMAIN s.tools \ {call_id}
                                                       |-> s.tools[k]],
                      !.tool_order = IF call_id \in DOMAIN s.tools THEN @
                                     ELSE Append(@, call_id),
                      !.cur_idx = s.cur_idx + 1]
         IN Emit(s1, BlockStart(rec.block_idx, "tool_use", call_id, ev.name))

RespArgsDelta(s, ev) ==
    IF ev.call_id \in DOMAIN s.tools /\ ev.delta # ""
    THEN Emit(s, BlockDelta(s.tools[ev.call_id].block_idx, "input_json_delta", ev.delta))
    ELSE s

RespItemDone(s, ev) ==
    IF ev.item = "function_call" /\ ev.call_id \in DOMAIN s.tools
       /\ ~s.tools[ev.call_id].closed
    THEN LET t == s.tools[ev.call_id]
             s1 == IF ev.delta # ""
                   THEN Emit(s, BlockDelta(t.block_idx, "input_json_delta", ev.delta))
                   ELSE s
         IN [Emit(s1, BlockStop(t.block_idx)) EXCEPT !.tools[ev.call_id].closed = TRUE]
    ELSE s

\* a variant that does not take the usage of the response.completed event
RespCompletedKeepsUsage(s, ev) == s

\* usage = {resp_usage.get("input_tokens", 0), resp_usage.get("output_tokens", 0)}
RespCompleted(s, ev) ==
    [s EXCEPT !.usage = IF ev.usage = NoneUsage THEN Usage2(0, 0) ELSE ev.usage]

\* the body of "async for line" for every event but response.completed
ResponsesEvent(s, ev) ==
    CASE ev.type = "response.output_text.delta" -> RespTextDelta(s, ev.delta)
      [] ev.type \in {"response.reasoning_summary_text.delta",
                      "response.reasoning.delta"} -> RespReasoningDelta(s, ev.delta)
      [] ev.type = "response.output_item.added" -> RespItemAdded(s, ev)
      [] ev.type = "response.function_call_arguments.delta" -> RespArgsDelta(s, ev)
      [] ev.type = "response.output_item.done" -> RespItemDone(s, ev)
      [] OTHER -> s

\* the except branch
ResponsesErrorPath(s, msg) ==
    EmitAll(s, <<ErrorEvent(msg), MessageDelta("end_turn", Usage2(0, 0)),
                 MessageStop, DoneMarker>>)

\* after the try block
ResponsesFinish(s) ==
    EmitAll(CloseBlocks(s, ""),
            <<MessageDelta(StopReason(s), s.usage), MessageStop, DoneMarker>>)

\* --------------------------------------------------------- CodexClient.handle

\* One JSON-RPC notification read during the turn.
CodexMsg(m, it, id, ch, d) ==
    [method |-> m, item |-> it, id |-> id, changes |-> ch, delta |-> d]

ItemIds == {"i1", "i2"}

CodexMsgs ==
    {CodexMsg("item/agentMessage/delta", "", "", <<>>, d) : d \in {"", "t"}}
    \cup {CodexMsg("item/reasoning/summaryTextDelta", "", "", <<>>, "r")}
    \cup {CodexMsg(m, it, id, <<>>, "") :
            m \in {"item/started", "item/completed"},
            it \in {"commandExecution", "mcpToolCall", "webSearch"},
            id \in ItemIds}
    \cup {CodexMsg(m, "fileChange", "i1", ch, "") :
            m \in {"item/started", "item/completed"},
            ch \in {<<"p">>, <<"p", "q">>}}
    \cup {CodexMsg("thread/tokenUsage/updated", "", "", <<>>, ""),
          CodexMsg("error", "", "", <<>>, "boom"),
          CodexMsg("malformed", "", "", <<>>, "")}

\* _next_tool_id(prefix): f"{prefix}_{counter}_{random}"
ToolIdOf(prefix, n) == prefix \o "_" \o ToString(n)

\* _tool_marker(marker_type, payload) sent as a text_delta on text_idx
Marker(s, mtype, tool_id, nm) ==
    EmitAll(s, <<Sse("content_block_delta", s.text_idx, "text_delta", mtype,
                     tool_id, nm, NoUsage),
                 Ping>>)

CodexAgentDelta(s, delta) ==
    IF delta = "" THEN s
    ELSE LET s1 == IF ~s.text_started
                   THEN OpenText(IF s.thinking_started THEN CloseThinking(s, "") ELSE s)
                   ELSE s
         IN Emit(s1, BlockDelta(s1.text_idx, "text_delta", delta))

CodexReasoningDelta(s, delta) ==
    IF delta = "" THEN s
    ELSE LET s1 == IF ~s.thinking_started THEN OpenThinking(s) ELSE s
         IN Emit(s1, BlockDelta(s1.thinking_idx, "thinking_delta", delta))

\* register a tool id under key
CodexRegister(s, key, prefix) ==
    [s EXCEPT !.tool_counter = @ + 1,
              !.active_tools = (key :> ToolIdOf(prefix, s.tool_counter + 1))
                               @@ [k \in DOMAIN s.active_tools \ {key}
                                     |-> s.active_tools[k]]]

\* self._active_tools.pop(key)
CodexPop(s, key) ==
    [s EXCEPT !.active_tools = [k \in DOMAIN s.active_tools \ {key}
                                  |-> s.active_tools[k]]]

\* item/started, commandExecution: closes an open thinking block first
CodexCommandStarted(s, m) ==
    LET s0 == CodexRegister(s, m.id, "codex_cmd")
        s1 == IF ~s0.text_started
              THEN OpenText(IF s0.thinking_started THEN CloseThinking(s0, "") ELSE s0)
              ELSE s0
    IN Marker(s1, "START", s0.active_tools[m.id], "CodexCommand")

\* item/started, mcpToolCall and webSearch: open a text block if none is open
CodexToolStarted(s, m, prefix, nm) ==
    LET s0 == CodexRegister(s, m.id, prefix)
        s1 == IF ~s0.text_started THEN OpenText(s0) ELSE s0
    IN Marker(s1, "START", s0.active_tools[m.id], nm)

RECURSIVE CodexFileStarted(_, _, _)
CodexFileStarted(s, id, changes) ==
    IF changes = <<>> THEN s
    ELSE LET key == id \o ":" \o Head(changes)
             s0 == CodexRegister(s, key, "codex_file")
             s1 == IF ~s0.text_started THEN OpenText(s0) ELSE s0
         IN CodexFileStarted(Marker(s1, "START", s0.active_tools[key], "Edit"),
                             id, Tail(changes))

\* item/completed, commandExecution / mcpToolCall / webSearch
CodexToolCompleted(s, m) ==
    IF m.id \in DOMAIN s.active_tools
    THEN LET s0 == CodexPop(s, m.id)
             s1 == IF ~s0.text_started THEN OpenText(s0) ELSE s0
         IN Marker(s1, "RESULT", s.active_tools[m.id], "")
    ELSE s

\* item/completed, fileChange: the marker goes to text_idx as it stands
RECURSIVE CodexFileCompleted(_, _, _)
CodexFileCompleted(s, id, changes) ==
    IF changes = <<>> THEN s
    ELSE LET key == id \o ":" \o Head(changes)
             s1 == IF key \in DOMAIN s.active_tools
                   THEN Marker(CodexPop(s, key), "RESULT", s.active_tools[key], "")
                   ELSE s
         IN CodexFileCompleted(s1, id, Tail(changes))

\* usage["input_tokens"] = token_usage.get("inputTokens", 0), ...
CodexUsage(s) == [s EXCEPT !.usage = Usage2(5, 7)]

\* a variant that writes the message without opening a text block
CodexErrorNoOpen(s, msg) ==
    Emit(s, BlockDelta(s.text_idx, "text_delta", "Error: " \o msg))

\* an error notification: open a text block unless text_started, then
\* f"Error: {error_msg}" as a text_delta on text_idx
CodexError(s, msg) ==
    LET s1 == IF ~s.text_started THEN OpenText(s) ELSE s
    IN Emit(s1, BlockDelta(s1.text_idx, "text_delta", "Error: " \o msg))

\* the body of "async for msg in self._read_notifications(line_reader)"
CodexNotify(s, m) ==
    CASE m.method = "item/agentMessage/delta" -> CodexAgentDelta(s, m.delta)
      [] m.method = "item/reasoning/summaryTextDelta" -> CodexReasoningDelta(s, m.delta)
      [] m.method = "item/started" /\ m.item = "commandExecution" ->
            CodexCommandStarted(s, m)
      [] m.method = "item/started" /\ m.item = "fileChange" ->
            CodexFileStarted(s, m.id, m.changes)
      [] m.method = "item/started" /\ m.item = "mcpToolCall" ->
            CodexToolStarted(s, m, "codex_mcp", "mcp_tool")
      [] m.method = "item/started" /\ m.item = "webSearch" ->
            CodexToolStarted(s, m, "codex_search", "WebSearch")
      [] m.method = "item/completed" /\ m.item = "fileChange" ->
            CodexFileCompleted(s, m.id, m.changes)
      [] m.method = "item/completed" -> CodexToolCompleted(s, m)
      [] m.method = "thread/tokenUsage/updated" -> CodexUsage(s)
      [] m.method = "error" -> CodexError(s, m.delta)
      [] OTHER -> s

\* after the finally block: close thinking and text, the terminal events
CodexFinish(s) ==
    EmitAll(CloseBlocks(s, ""),
            <<MessageDelta("end_turn", s.usage), MessageStop, DoneMarker>>)

\* The pty, the subprocess and the reader task of one CodexClient.handle
\* call.  stdout is what the subprocess still writes to the pty: "live" (it
\* answers), "silent" (it runs and writes nothing more), "eof" (its output is
\* closed and read_master has queued the empty chunk), "drained" (the empty
\* chunk was taken: the queue stays empty), "waiting" (it has written all it
\* writes before the next request and waits for that request).
NoSession ==
    [master_fd |-> "none", slave_fd |-> "none", proc |-> "none",
     reader_task |-> "none", stdout |-> "none"]

\* the finally block: reader_task.cancel() and await, os.close(master_fd),
\* proc.terminate() and proc.wait() when the subprocess has not exited
Cleanup(ses) ==
    [ses EXCEPT !.reader_task = "done", !.master_fd = "closed",
                !.proc = IF @ = "running" THEN "terminated" ELSE @]

\* readline took the empty chunk
TakeEof(ses) == [ses EXCEPT !.stdout = "drained"]

\* os.write(master_fd, ...) once the subprocess has closed its side of the
\* pty: the write is accepted or raises OSError
WriteOutcomes(ses) ==
    IF ses.stdout = "live" THEN {"ok"} ELSE {"ok", "OSError"}

\* what a read of the handshake returns: the awaited message, or nothing at
\* the end of the output
Received(ses, what) == IF ses.stdout = "eof" THEN "<- EOF" ELSE "<- " \o what

\* an exception inside the try block: the finally block runs and the
\* exception leaves the generator
CodexRaise(ses, exc, why) ==
    /\ session' = Cleanup(ses)
    /\ pc' = "raised" /\ fault' = exc /\ failure' = why

\* ------------------------------------------------------------ one request

Adapters == {"openai", "copilot_chat", "copilot_responses", "codex"}

InitStream ==
    /\ adapter \in Adapters
    /\ pc = "handle"
    /\ out = <<>>
    /\ text_started = FALSE /\ text_idx = -1
    /\ thinking_started = FALSE /\ thinking_idx = -1
    /\ cur_idx = 0
    /\ tools = <<>> /\ tool_order = <<>>
    /\ usage = NoneUsage
    /\ had_content = FALSE
    /\ reasoning_opaque = ""
    /\ first_data_seen = FALSE
    /\ nread = 0
    /\ fault = "" /\ failure = ""
    /\ connections = 0
    /\ active_tools = <<>> /\ tool_counter = 0
    /\ wire = <<>>
    /\ session = NoSession

\* the generator yields s.out and stops at position p
Yield(s, p) == Commit(s) /\ pc' = p

\* OpenAIProvider.handle up to the first upstream call: get_api_key, the
\* payload conversion (neither is guarded), then message_start and ping.
OpenAIHandle ==
    /\ UNCHANGED notStream
    /\ adapter = "openai" /\ pc = "handle"
    /\ \E outcome \in {"ok", "credential", "convert"} :
         IF outcome = "ok"
         THEN /\ Yield(EmitAll(Cur, <<MessageStart(Usage2(0, 0)), Ping>>), "create")
              /\ UNCHANGED <<fault, failure>>
         ELSE /\ pc' = "raised" /\ fault' = outcome /\ failure' = outcome
              /\ UNCHANGED <<out, text_started, text_idx, thinking_started,
                             thinking_idx, cur_idx, tools, tool_order, usage,
                             had_content, reasoning_opaque, first_data_seen,
                             active_tools, tool_counter>>
    /\ UNCHANGED <<adapter, nread, connections, wire, session>>

\* stream = await client.chat.completions.create(**kwargs)
OpenAICreate ==
    /\ UNCHANGED notStream
    /\ adapter = "openai" /\ pc = "create"
    /\ connections' = connections + 1
    /\ \E status \in {200, 500} :
         IF status = 200
         THEN pc' = "stream" /\ UNCHANGED <<out, failure>>
         ELSE /\ out' = OpenAIErrorPath(Cur, "http_status").out
              /\ pc' = "done" /\ failure' = "http_status"
    /\ UNCHANGED <<adapter, text_started, text_idx, thinking_started, thinking_idx,
                   cur_idx, tools, tool_order, usage, had_content, reasoning_opaque,
                   first_data_seen, nread, fault, active_tools, tool_counter, wire, session>>

OpenAIOnChunk ==
    /\ UNCHANGED notStream
    /\ adapter = "openai" /\ pc = "stream" /\ nread < MaxFrames
    /\ \E c \in ChatChunks : Yield(OpenAIChunk(Cur, c), "stream")
    /\ nread' = nread + 1
    /\ UNCHANGED <<adapter, fault, failure, connections, wire, session>>

\* an exception while the stream is iterated
OpenAIStreamFails ==
    /\ UNCHANGED notStream
    /\ adapter = "openai" /\ pc = "stream"
    /\ Yield(OpenAIErrorPath(Cur, "stream_error"), "done")
    /\ failure' = "stream_error"
    /\ UNCHANGED <<adapter, nread, fault, connections, wire, session>>

OpenAIExhausted ==
    /\ UNCHANGED notStream
    /\ adapter = "openai" /\ pc = "stream"
    /\ Yield(OpenAIFinish(Cur), "done")
    /\ UNCHANGED <<adapter, nread, fault, failure, connections, wire, session>>

\* the message of CopilotProvider.handle when _get_token() returns nothing
TokenNotFound == "GitHub Copilot token not found. Set GITHUB_COPILOT_TOKEN."

\* CopilotProvider.handle up to the first upstream call
CopilotHandle ==
    /\ UNCHANGED notStream
    /\ adapter \in {"copilot_chat", "copilot_responses"} /\ pc = "handle"
    /\ \E outcome \in {"ok", "credential", "convert"} :
         IF outcome = "ok"
         THEN /\ IF adapter = "copilot_chat"
                 THEN Yield(EmitAll(Cur, <<MessageStart(Usage4(0, 0, 0, 0)), Ping>>),
                            "connect")
                 ELSE Yield(EmitAll([Cur EXCEPT !.usage = Usage2(0, 0)],
                                    <<MessageStart(Usage2(0, 0)), Ping>>),
                            "connect")
              /\ UNCHANGED failure
         ELSE /\ Yield(EmitAll(Cur, yield_error_events(
                                      IF outcome = "credential"
                                      THEN TokenNotFound ELSE outcome)),
                       "done")
              /\ failure' = outcome
    /\ UNCHANGED <<adapter, nread, fault, connections, wire, session>>

\* client.stream("POST", ...) and the status check
HttpConnect ==
    /\ UNCHANGED notStream
    /\ adapter \in {"copilot_chat", "copilot_responses"} /\ pc = "connect"
    /\ connections' = connections + 1
    /\ \E status \in {200, 500} :
         IF status = 200
         THEN pc' = "stream" /\ UNCHANGED <<out, failure>>
         ELSE /\ out' = IF adapter = "copilot_chat"
                        THEN CopilotErrorPath(Cur, "http_status").out
                        ELSE ResponsesErrorPath(Cur, "http_status").out
              /\ pc' = "done" /\ failure' = "http_status"
    /\ UNCHANGED <<adapter, text_started, text_idx, thinking_started, thinking_idx,
                   cur_idx, tools, tool_order, usage, had_content, reasoning_opaque,
                   first_data_seen, nread, fault, active_tools, tool_counter, wire, session>>

CopilotOnLine ==
    /\ UNCHANGED notStream
    /\ adapter = "copilot_chat" /\ pc = "stream" /\ nread < MaxFrames
    /\ \E ln \in CopilotLines :
         IF CopilotLineRaises(Cur, ln)
         THEN /\ Yield(CopilotErrorPath(Cur, CopilotLineFault(Cur, ln)), "done")
              /\ failure' = "protocol"
         ELSE /\ Yield(CopilotLine(Cur, ln), "stream")
              /\ UNCHANGED failure
    /\ nread' = nread + 1
    /\ UNCHANGED <<adapter, fault, connections, wire, session>>

CopilotStreamFails ==
    /\ UNCHANGED notStream
    /\ adapter = "copilot_chat" /\ pc = "stream"
    /\ Yield(CopilotErrorPath(Cur, "stream_error"), "done")
    /\ failure' = "stream_error"
    /\ UNCHANGED <<adapter, nread, fault, connections, wire, session>>

CopilotExhausted ==
    /\ UNCHANGED notStream
    /\ adapter = "copilot_chat" /\ pc = "stream"
    /\ Yield(CopilotFinish(Cur), "done")
    /\ UNCHANGED <<adapter, nread, fault, failure, connections, wire, session>>

ResponsesOnEvent ==
    /\ UNCHANGED notStream
    /\ adapter = "copilot_responses" /\ pc = "stream" /\ nread < MaxFrames
    /\ \E ev \in ResponsesEvents :
         IF ev.type = "response.completed"
         THEN Yield(ResponsesFinish(RespCompleted(Cur, ev)), "done")
         ELSE Yield(ResponsesEvent(Cur, ev), "stream")
    /\ nread' = nread + 1
    /\ UNCHANGED <<adapter, fault, failure, connections, wire, session>>

ResponsesStreamFails ==
    /\ UNCHANGED notStream
    /\ adapter = "copilot_responses" /\ pc = "stream"
    /\ Yield(ResponsesErrorPath(Cur, "stream_error"), "done")
    /\ failure' = "stream_error"
    /\ UNCHANGED <<adapter, nread, fault, connections, wire, session>>

ResponsesExhausted ==
    /\ UNCHANGED notStream
    /\ adapter = "copilot_responses" /\ pc = "stream"
    /\ Yield(ResponsesFinish(Cur), "done")
    /\ UNCHANGED <<adapter, nread, fault, failure, connections, wire, session>>

\* CodexClient.handle up to its first readline: message_start, ping, the
\* locals, pty.openpty(), create_subprocess_exec (awaited outside try), the
\* reader task, the initialize request.
CodexHandle ==
    /\ UNCHANGED notStream
    /\ adapter = "codex" /\ pc = "handle"
    /\ \E spawn \in {"ok", "spawn", "cancelled"} :
         /\ Yield(EmitAll([Cur EXCEPT !.text_idx = 0, !.usage = Usage2(0, 0)],
                          <<MessageStart(Usage2(0, 0)), Ping>>),
                  IF spawn = "ok" THEN "initialize"
                  ELSE IF spawn = "spawn" THEN "raised" ELSE "cancelled")
         /\ fault' = IF spawn = "spawn" THEN "spawn" ELSE ""
         /\ failure' = IF spawn = "ok" THEN "" ELSE spawn
         /\ connections' = IF spawn = "ok" THEN connections + 1 ELSE connections
         /\ wire' = IF spawn = "ok" THEN <<"initialize">> ELSE wire
         /\ session' =
              IF spawn = "ok"
              THEN [master_fd |-> "open", slave_fd |-> "closed",
                    proc |-> "running", reader_task |-> "running",
                    stdout |-> "live"]
              ELSE [NoSession EXCEPT !.master_fd = "open", !.slave_fd = "open"]
    /\ UNCHANGED <<adapter, nread>>

\* _read_response(init_id) returns (the response, or {} at the end of the
\* output; the result is not looked at), then the initialized notification
\* and the thread/start request are written
CodexInitialize ==
    /\ UNCHANGED notStream
    /\ adapter = "codex" /\ pc = "initialize"
    /\ session.stdout \in {"live", "eof"}
    /\ LET ses == IF session.stdout = "eof" THEN TakeEof(session) ELSE session
       IN  \E w \in WriteOutcomes(ses) :
             IF w = "ok"
             THEN /\ wire' = wire \o <<Received(session, "initialize"),
                                       "initialized", "thread/start">>
                  /\ session' = ses
                  /\ pc' = "thread_start"
                  /\ UNCHANGED <<fault, failure>>
             ELSE /\ CodexRaise(ses, "OSError", "eof")
                  /\ wire' = Append(wire, Received(session, "initialize"))
    /\ UNCHANGED <<adapter, out, text_started, text_idx, thinking_started,
                   thinking_idx, cur_idx, tools, tool_order, usage, had_content,
                   reasoning_opaque, first_data_seen, nread, connections,
                   active_tools, tool_counter>>

\* _read_response(thread_id_req) returns; no thread id raises RuntimeError
\* through the finally block: there is no except clause.  The subprocess
\* writes the thread/start response and the thread/started notification in
\* either order: _read_response drops every line whose id is not the
\* expected one, so a notification written first is read and dropped there.
CodexThreadStart ==
    /\ UNCHANGED notStream
    /\ adapter = "codex" /\ pc = "thread_start"
    /\ session.stdout \in {"live", "eof"}
    /\ IF session.stdout = "eof"
       THEN /\ CodexRaise(TakeEof(session), "Failed to start thread", "eof")
            /\ wire' = Append(wire, Received(session, "thread/start"))
       ELSE \E resp \in {"with_id", "no_id", "notification_first"} :
              IF resp = "with_id"
              THEN /\ pc' = "thread_started"
                   /\ wire' = Append(wire, Received(session, "thread/start"))
                   /\ UNCHANGED <<fault, failure, session>>
              ELSE IF resp = "notification_first"
              THEN /\ pc' = "thread_started"
                   /\ wire' = wire \o <<"<- thread/started", "<- thread/start">>
                   /\ session' = [session EXCEPT !.stdout = "waiting"]
                   /\ UNCHANGED <<fault, failure>>
              ELSE /\ CodexRaise(session, "Failed to start thread", "handshake")
                   /\ wire' = Append(wire, "<- thread/start without id")
    /\ UNCHANGED <<adapter, out, text_started, text_idx, thinking_started,
                   thinking_idx, cur_idx, tools, tool_order, usage, had_content,
                   reasoning_opaque, first_data_seen, nread, connections,
                   active_tools, tool_counter>>

\* _read_until_method("thread/started") returns (the notification, or {} at
\* the end of the output), then the turn/start request is written
CodexThreadStarted ==
    /\ UNCHANGED notStream
    /\ adapter = "codex" /\ pc = "thread_started"
    /\ session.stdout \in {"live", "eof"}
    /\ LET ses == IF session.stdout = "eof" THEN TakeEof(session) ELSE session
       IN  \E w \in WriteOutcomes(ses) :
             IF w = "ok"
             THEN /\ wire' = wire \o <<Received(session, "thread/started"),
                                       "turn/start">>
                  /\ session' = ses
                  /\ pc' = "turn"
                  /\ UNCHANGED <<fault, failure>>
             ELSE /\ CodexRaise(ses, "OSError", "eof")
                  /\ wire' = Append(wire, Received(session, "thread/started"))
    /\ UNCHANGED <<adapter, out, text_started, text_idx, thinking_started,
                   thinking_idx, cur_idx, tools, tool_order, usage, had_content,
                   reasoning_opaque, first_data_seen, nread, connections,
                   active_tools, tool_counter>>

CodexOnNotification ==
    /\ UNCHANGED notStream
    /\ adapter = "codex" /\ pc = "turn" /\ nread < MaxFrames
    /\ session.stdout = "live"
    /\ \E m \in CodexMsgs : Yield(CodexNotify(Cur, m), "turn")
    /\ nread' = nread + 1
    /\ UNCHANGED <<adapter, fault, failure, connections, wire, session>>

\* the notification loop ends: turn/completed, the 300 s idle timeout
\* (logged, break), or the end of the subprocess output (break); the finally
\* block runs and the closing events follow
CodexTurnEnds ==
    /\ UNCHANGED notStream
    /\ adapter = "codex" /\ pc = "turn"
    /\ \E reason \in {"turn/completed", "idle_timeout", "eof"} :
         /\ reason = "turn/completed" => session.stdout = "live"
         /\ reason = "idle_timeout" => session.stdout # "eof"
         /\ reason = "eof" => session.stdout = "eof"
         /\ Yield(CodexFinish(Cur), "done")
         /\ failure' = IF reason = "turn/completed" THEN "" ELSE reason
         /\ session' = Cleanup(IF reason = "eof" THEN TakeEof(session)
                               ELSE session)
    /\ UNCHANGED <<adapter, nread, fault, connections, wire>>

\* the subprocess stops answering: it goes silent, or its output ends (it
\* closed its side of the pty, or it exited)
SubprocessStops ==
    /\ UNCHANGED notStream
    /\ adapter = "codex"
    /\ pc \in {"initialize", "thread_start", "thread_started", "turn"}
    /\ session.stdout \in {"live", "waiting"}
    /\ \E how \in {"silent", "closed", "exited"} :
         session' = [session EXCEPT
                        !.stdout = IF how = "silent" THEN "silent" ELSE "eof",
                        !.proc = IF how = "exited" THEN "exited" ELSE @]
    /\ UNCHANGED <<adapter, pc, out, text_started, text_idx, thinking_started,
                   thinking_idx, cur_idx, tools, tool_order, usage, had_content,
                   reasoning_opaque, first_data_seen, nread, fault, failure,
                   connections, active_tools, tool_counter, wire>>

\* the caller goes away while the generator waits inside the try block:
\* CancelledError is raised at the await and the finally block runs
CodexCancelled ==
    /\ UNCHANGED notStream
    /\ adapter = "codex"
    /\ pc \in {"initialize", "thread_start", "thread_started", "turn"}
    /\ session' = Cleanup(session)
    /\ pc' = "cancelled"
    /\ failure' = "cancelled"
    /\ UNCHANGED <<adapter, out, text_started, text_idx, thinking_started,
                   thinking_idx, cur_idx, tools, tool_order, usage, had_content,
                   reasoning_opaque, first_data_seen, nread, fault,
                   connections, active_tools, tool_counter, wire>>

IdleAuth ==
    /\ now = 0 /\ auth_file = <<>> /\ cache = <<>> /\ apc = <<>> /\ loc = <<>>
    /\ ret = <<>> /\ refresh_count = 0 /\ ncalls = 0 /\ token_seq = 0

NextStream ==
    \/ OpenAIHandle \/ OpenAICreate \/ OpenAIOnChunk \/ OpenAIStreamFails
    \/ OpenAIExhausted
    \/ CopilotHandle \/ HttpConnect \/ CopilotOnLine \/ CopilotStreamFails
    \/ CopilotExhausted
    \/ ResponsesOnEvent \/ ResponsesStreamFails \/ ResponsesExhausted
    \/ CodexHandle \/ CodexInitialize \/ CodexThreadStart \/ CodexThreadStarted
    \/ CodexOnNotification \/ CodexTurnEnds
    \/ SubprocessStops \/ CodexCancelled

\* one request, served by one of the four adapters
InitStreamOnly == InitStream /\ IdleAuth /\ IdleDisp /\ IdleClient /\ IdlePipe /\ IdleCalc

SpecStream == InitStreamOnly /\ [][NextStream]_vars

\* what the event loop does whenever it can: every step of a handler.  What
\* the subprocess and the caller do (SubprocessStops, CodexCancelled) is
\* left to them.
HandlerStep ==
    \/ OpenAIHandle \/ OpenAICreate \/ OpenAIOnChunk \/ OpenAIStreamFails
    \/ OpenAIExhausted
    \/ CopilotHandle \/ HttpConnect \/ CopilotOnLine \/ CopilotStreamFails
    \/ CopilotExhausted
    \/ ResponsesOnEvent \/ ResponsesStreamFails \/ ResponsesExhausted
    \/ CodexHandle \/ CodexInitialize \/ CodexThreadStart \/ CodexThreadStarted
    \/ CodexOnNotification \/ CodexTurnEnds

SpecStreamFair == InitStreamOnly /\ [][NextStream]_vars /\ WF_vars(HandlerStep)

\* ------------------------------------------------ properties of one request

Finished == pc \in {"done", "raised"}

\* the named events: everything but the raw [DONE] frame
Events == SelectSeq(out, LAMBDA e : e.type # "[DONE]")

\* the named events without keep-alives
Payload == SelectSeq(Events, LAMBDA e : e.type # "ping")

Count(t) == Len(SelectSeq(out, LAMBDA e : e.type = t))

Positions(P(_)) == {i \in 1..Len(out) : P(out[i])}

IsToolStart(e) == e.type = "content_block_start" /\ e.kind = "tool_use"
IsThinkingStart(e) == e.type = "content_block_start" /\ e.kind = "thinking"
IsBlockStart(e) == e.type = "content_block_start"
IsTerminal(e) == e.type \in {"message_delta", "message_stop"}
IsMessageDelta(e) == e.type = "message_delta"

ZeroUsage(u) == \A k \in DOMAIN u : u[k] = 0

\* C1: every finished request emitted exactly one message_start and exactly
\* one message_stop, and message_stop is its last event.
C1_OneStartOneStopLast ==
    Finished =>
        /\ Count("message_start") = 1
        /\ Count("message_stop") = 1
        /\ Events # <<>>
        /\ Events[Len(Events)].type = "message_stop"

\* C2: every tool_use block that was started is stopped before the terminal
\* message_delta / message_stop.
C2_ToolBlocksClosedBeforeTerminal ==
    \A i \in Positions(IsToolStart) :
        \A j \in Positions(IsTerminal) :
            j > i => \E k \in (i + 1)..(j - 1) :
                        /\ out[k].type = "content_block_stop"
                        /\ out[k].index = out[i].index

\* C3: an opened thinking block gets its signature_delta and its
\* content_block_stop before any later content_block_start and before the
\* terminal message_delta.
C3_ThinkingClosedBeforeNextBlock ==
    \A i \in Positions(IsThinkingStart) :
        \A j \in Positions(IsBlockStart) \cup Positions(IsMessageDelta) :
            j > i => \E k \in (i + 1)..(j - 1) :
                        /\ out[k].type = "content_block_stop"
                        /\ out[k].index = out[i].index
                        /\ \E g \in (i + 1)..(k - 1) :
                              /\ out[g].kind = "signature_delta"
                              /\ out[g].index = out[i].index

\* C4: the indices of successive content_block_start events never decrease
\* and no index is used twice.
C4_BlockIndicesMonotoneUnique ==
    \A i, j \in Positions(IsBlockStart) :
        i < j => out[i].index < out[j].index

\* C5: the terminal message_delta says tool_use exactly when a tool_use
\* block was opened in the request, end_turn otherwise.
C5_StopReasonIffToolOpened ==
    \A j \in Positions(IsMessageDelta) :
        /\ out[j].kind \in {"tool_use", "end_turn"}
        /\ out[j].kind = "tool_use" <=> Positions(IsToolStart) # {}

\* C6: a non-2xx upstream status before any upstream event gives exactly
\* message_start, error, message_delta(end_turn), message_stop, zero usage.
C6_HttpFailureSequence ==
    (pc = "done" /\ failure = "http_status") =>
        /\ Len(Payload) = 4
        /\ Payload[1].type = "message_start" /\ ZeroUsage(Payload[1].usage)
        /\ Payload[2].type = "error"
        /\ Payload[3].type = "message_delta" /\ Payload[3].kind = "end_turn"
        /\ ZeroUsage(Payload[3].usage)
        /\ Payload[4].type = "message_stop"

\* C7: a structural failure (handshake, credential, non-2xx status, idle
\* timeout) is never raised out of the generator: the caller gets an error
\* event, then the terminal message_delta and message_stop.
C7_StructuralFailureSurfaced ==
    (Finished /\ failure \in {"handshake", "credential", "http_status", "idle_timeout"}) =>
        /\ fault = ""
        /\ \E i \in 1..Len(Events) :
              /\ Events[i].type = "error"
              /\ \E j \in (i + 1)..Len(Events) :
                    /\ Events[j].type = "message_delta"
                    /\ j + 1 = Len(Events)
                    /\ Events[j + 1].type = "message_stop"

\* what the upstream last reported, as input_tokens / output_tokens; zero
\* when it never reported usage
LastUsage == IF usage = NoneUsage THEN Usage2(0, 0) ELSE usage

\* C21: every terminal message_delta reports input_tokens = 0 and
\* output_tokens = 0 when the upstream supplied no usage during the request,
\* and the values of the most recently received usage update otherwise.
C21_TerminalUsageIsLastReceived ==
    \A j \in Positions(IsMessageDelta) :
        /\ out[j].usage.input_tokens = LastUsage.input_tokens
        /\ out[j].usage.output_tokens = LastUsage.output_tokens

\* the stream state the translators keep between frames
BlockState(s) ==
    [text_started |-> s.text_started, text_idx |-> s.text_idx,
     thinking_started |-> s.thinking_started, thinking_idx |-> s.thinking_idx,
     cur_idx |-> s.cur_idx, tools |-> s.tools, tool_order |-> s.tool_order,
     usage |-> s.usage]

\* what the caller sees when _stream_chat handles line ln in state s: the
\* events so far, and whether the stream has ended
CopilotAfter(s, ln) ==
    IF CopilotLineRaises(s, ln)
    THEN [ended |-> TRUE, out |-> CopilotErrorPath(s, CopilotLineFault(s, ln)).out]
    ELSE [ended |-> FALSE, out |-> CopilotLine(s, ln).out]

MalformedLine == CHOOSE ln \in CopilotLines : ln.kind = "malformed"
MalformedEvent == CHOOSE ev \in ResponsesEvents : ev.type = "malformed"
MalformedMsg == CHOOSE m \in CodexMsgs : m.method = "malformed"

\* C24: in every state of a stream, a line that is not parseable JSON adds no
\* event, changes nothing of the block state and does not end the stream, and
\* every frame that follows it is translated as it is without the line.
C24_MalformedFrameSkipped ==
    /\ (adapter = "copilot_chat" /\ pc = "stream") =>
          /\ ~CopilotLineRaises(Cur, MalformedLine)
          /\ CopilotLine(Cur, MalformedLine).out = out
          /\ BlockState(CopilotLine(Cur, MalformedLine)) = BlockState(Cur)
          /\ \A ln \in CopilotLines :
                CopilotAfter(CopilotLine(Cur, MalformedLine), ln)
                    = CopilotAfter(Cur, ln)
    /\ (adapter = "copilot_responses" /\ pc = "stream") =>
          /\ ResponsesEvent(Cur, MalformedEvent) = Cur
    /\ (adapter = "codex" /\ pc = "turn") =>
          /\ CodexNotify(Cur, MalformedMsg) = Cur

\* the indices of the blocks of the given kind that were started at or
\* before position k of the sequence o and have not been stopped by then
OpenIn(o, kind, k) ==
    {o[i].index : i \in
        {i \in 1..k :
            /\ o[i].type = "content_block_start" /\ o[i].kind = kind
            /\ \A j \in (i + 1)..k :
                  ~(o[j].type = "content_block_stop" /\ o[j].index = o[i].index)}}

OpenAt(kind, k) == OpenIn(out, kind, k) # {}

\* C25: at no point of the downstream sequence are a text block and a
\* thinking block both open.
C25_TextThinkingExclusive ==
    \A k \in 1..Len(out) : ~(OpenAt("text", k) /\ OpenAt("thinking", k))

\* C26: wherever a tool_use content_block_start stands in the downstream
\* sequence, no text block is open.
C26_NoTextOpenAtToolStart ==
    \A k \in Positions(IsToolStart) : ~OpenAt("text", k)

\* the events a translator step adds to out when it ends in state s2
NewEvents(s2) == SubSeq(s2.out, Len(out) + 1, Len(s2.out))

\* the tool_use content_block_start events of out on block index b
StartsOn(b) == {i \in Positions(IsToolStart) : out[i].index = b}

\* so far every slot has its own block index, a started slot has exactly one
\* tool_use content_block_start, with a name, and an unstarted slot has none
SlotsIntact ==
    /\ \A i, j \in DOMAIN tools :
          i # j => tools[i].block_idx # tools[j].block_idx
    /\ \A i \in DOMAIN tools :
          /\ Cardinality(StartsOn(tools[i].block_idx))
                = IF tools[i].started THEN 1 ELSE 0
          /\ \A k \in StartsOn(tools[i].block_idx) : out[k].name # ""
    /\ \A k \in Positions(IsToolStart) :
          \E i \in DOMAIN tools : out[k].index = tools[i].block_idx

\* fragment tc, handled in the current state and leaving state s2: it starts
\* the slot's block only when it carries a name and the slot has no block
\* yet, everything it emits goes to the slot's block index, which does not
\* change, and arguments are emitted only to a started block
FragmentIntact(s2, tc) ==
    LET new == NewEvents(s2)
        idx == tc.index
        starts == {i \in 1..Len(new) : IsToolStart(new[i])}
        deltas == {i \in 1..Len(new) : new[i].kind = "input_json_delta"}
    IN  /\ Cardinality(starts) <= 1
        /\ starts # {} =>
              /\ tc.name # ""
              /\ idx \notin DOMAIN tools \/ ~tools[idx].started
        /\ \A i \in starts \cup deltas : new[i].index = s2.tools[idx].block_idx
        /\ \A i \in deltas :
              \/ idx \in DOMAIN tools /\ tools[idx].started
              \/ \E k \in starts : k < i
        /\ idx \in DOMAIN tools =>
              s2.tools[idx].block_idx = tools[idx].block_idx
        /\ \A k \in DOMAIN tools \ {idx} : s2.tools[k] = tools[k]

\* C27: in the chat-completion adapters every slot index gets at most one
\* tool_use content_block_start, emitted by a fragment that carries a
\* non-empty function name, and every fragment of the slot is emitted on the
\* slot's one block index.
C27_OneToolBlockPerSlot ==
    (adapter \in {"openai", "copilot_chat"} /\ pc = "stream") =>
        /\ SlotsIntact
        /\ \A tc \in ToolCallFrags :
              FragmentIntact(IF adapter = "openai" THEN OpenAIToolCall(Cur, tc)
                             ELSE CopilotToolCall(Cur, tc),
                             tc)

\* two slots have their blocks, and arguments of the first slot were emitted
\* on its block index after the second slot's block had started
C27_Witness ==
    /\ adapter \in {"openai", "copilot_chat"} /\ pc = "stream"
    /\ DOMAIN tools = {0, 1}
    /\ tools[0].started /\ tools[1].started
    /\ \E i \in StartsOn(tools[1].block_idx) :
          \E j \in (i + 1)..Len(out) :
              /\ out[j].kind = "input_json_delta"
              /\ out[j].index = tools[0].block_idx

CompletedEvents == {ev \in ResponsesEvents : ev.type = "response.completed"}

\* the terminal message_delta of a downstream sequence
TerminalDelta(o) == o[CHOOSE i \in 1..Len(o) : o[i].type = "message_delta"]

\* this step of stream_responses_api is what response.completed event ev
\* does in the current state
HandlesCompleted(ev) ==
    /\ adapter = "copilot_responses" /\ pc = "stream"
    /\ nread' = nread + 1
    /\ out' = ResponsesFinish(RespCompleted(Cur, ev)).out

\* C28: the step that receives response.completed ends the stream with a
\* terminal message_delta that carries the usage of that event (zero for a
\* counter it does not report), and no upstream event is read afterwards.
C28_CompletedEndsStream ==
    /\ []((adapter = "copilot_responses" /\ pc = "done") =>
             ~ENABLED (ResponsesOnEvent \/ ResponsesStreamFails
                         \/ ResponsesExhausted))
    /\ [][\A ev \in CompletedEvents :
             HandlesCompleted(ev) =>
                /\ pc' = "done"
                /\ Count("message_delta") = 0
                /\ TerminalDelta(out').usage
                      = (IF ev.usage = NoneUsage THEN Usage2(0, 0) ELSE ev.usage)
                /\ out'[Len(out') - 1].type = "message_stop"]_vars

\* response.completed arrived after other events and its usage is in the
\* terminal message_delta
C28_Witness ==
    /\ adapter = "copilot_responses" /\ pc = "done" /\ failure = ""
    /\ nread >= 2
    /\ usage = Usage2(5, 7)
    /\ Count("message_delta") = 1
    /\ TerminalDelta(out).usage = Usage2(5, 7)

\* C29: no error event follows a content_block_start in the downstream
\* sequence.
C29_NoErrorAfterBlockStart ==
    \A i \in Positions(IsBlockStart) :
        \A j \in (i + 1)..Len(out) : out[j].type # "error"

\* the four events of an error sequence that carries msg
IsErrorSequence(o, msg) ==
    /\ Len(o) = 4
    /\ o[1].type = "message_start" /\ ZeroUsage(o[1].usage)
    /\ o[2].type = "error" /\ o[2].text = msg
    /\ o[3].type = "message_delta" /\ o[3].kind = "end_turn"
    /\ ZeroUsage(o[3].usage)
    /\ o[4].type = "message_stop"

\* C31: yield_error_events emits message_start with zero usage, the error
\* with the given message, message_delta(end_turn, zero usage), message_stop
\* and nothing else; a CopilotProvider.handle call without a token emits this
\* sequence and opens no upstream connection.
C31_ErrorSequenceWithoutToken ==
    /\ \A msg \in {TokenNotFound, "convert", ""} :
          IsErrorSequence(yield_error_events(msg), msg)
    /\ (adapter \in {"copilot_chat", "copilot_responses"}
          /\ failure = "credential") =>
          /\ pc = "done"
          /\ IsErrorSequence(out, TokenNotFound)
          /\ connections = 0

C31_Witness ==
    /\ adapter \in {"copilot_chat", "copilot_responses"}
    /\ failure = "credential" /\ pc = "done"
    /\ Len(out) = 4

\* C32: the event after every message_start is a ping, the ping is out
\* before the first upstream connection or subprocess is opened, and a ping
\* leaves the block state as it was.
C32_PingFollowsMessageStart ==
    /\ \A i \in 1..Len(out) :
          out[i].type = "message_start" =>
              (i < Len(out) /\ out[i + 1].type = "ping")
    /\ connections > 0 => \E i \in 1..Len(out) : out[i].type = "ping"
    /\ BlockState(Emit(Cur, Ping)) = BlockState(Cur)

\* the indices of the blocks open after the first k events of out
OpenBlocks(k) ==
    OpenIn(out, "text", k) \cup OpenIn(out, "thinking", k)
        \cup OpenIn(out, "tool_use", k)

\* C34: every content_block_delta and every content_block_stop goes to a
\* block index that was started earlier and has not been stopped yet.
C34_DeltaAndStopOnOpenBlock ==
    \A k \in 1..Len(out) :
        out[k].type \in {"content_block_delta", "content_block_stop"} =>
            out[k].index \in OpenBlocks(k - 1)

\* the partial_json fragments of a sequence of events that go to block b
ArgsOn(o, b) ==
    LET d == SelectSeq(o, LAMBDA e : e.kind = "input_json_delta" /\ e.index = b)
    IN  [i \in 1..Len(d) |-> d[i].text]

DoneWithArguments ==
    {ev \in ResponsesEvents :
        /\ ev.type = "response.output_item.done" /\ ev.item = "function_call"
        /\ ev.delta # ""}

\* C35: the arguments of a tool call reach its tool_use block complete and
\* once.  In the chat adapters every fragment that carries arguments is
\* emitted, once, on the block of its slot, whether or not the name has
\* arrived; in stream_responses_api, after the output_item.done item that
\* carries the whole argument string, the block holds that string once,
\* whether or not its deltas were received before.
C35_ToolArgumentsComplete ==
    /\ (adapter \in {"openai", "copilot_chat"} /\ pc = "stream") =>
          \A tc \in ToolCallFrags :
              tc.arguments # "" =>
                  LET s2 == IF adapter = "openai" THEN OpenAIToolCall(Cur, tc)
                            ELSE CopilotToolCall(Cur, tc)
                  IN  ArgsOn(NewEvents(s2), s2.tools[tc.index].block_idx)
                          = <<tc.arguments>>
    /\ (adapter = "copilot_responses" /\ pc = "stream") =>
          \A ev \in DoneWithArguments :
              (/\ ev.call_id \in DOMAIN tools
               /\ ~tools[ev.call_id].closed
               /\ ArgsOn(out, tools[ev.call_id].block_idx)
                     \in {<<>>, <<ev.delta>>}) =>
                  ArgsOn(RespItemDone(Cur, ev).out, tools[ev.call_id].block_idx)
                      = <<ev.delta>>

\* ------------------------------------------- properties of a Codex session

Ended == pc \in {"done", "raised", "cancelled"}

\* C12: a request handled by CodexClient.handle eventually ends, whatever
\* the subprocess does at any stage (answers, goes silent, closes its output).
C12_CodexRequestEnds == (adapter = "codex") ~> Ended

\* C13: a turn ended by the idle timeout carries an error event, followed by
\* the terminal sequence message_delta, message_stop.
C13_IdleTimeoutErrorEvent ==
    (adapter = "codex" /\ pc = "done" /\ failure = "idle_timeout") =>
        \E i \in 1..Len(Events) :
            /\ Events[i].type = "error"
            /\ \E j \in (i + 1)..Len(Events) :
                  /\ Events[j].type = "message_delta"
                  /\ j + 1 = Len(Events)
                  /\ Events[j + 1].type = "message_stop"

\* C14: once the pty has been opened, however CodexClient.handle is left
\* (completion, idle timeout, handshake failure, spawn failure,
\* cancellation), both pty descriptors are closed, the reader task, if
\* created, has finished, and the subprocess, if started, is not running.
C14_CodexResourcesReleased ==
    (adapter = "codex" /\ Ended /\ session.master_fd # "none") =>
        /\ session.master_fd = "closed"
        /\ session.slave_fd = "closed"
        /\ session.reader_task \in {"none", "done"}
        /\ session.proc \in {"none", "exited", "terminated"}


\* C23: turn/start is written only after, in this order, the initialize
\* response was read, initialized was written, the thread/start response with
\* a thread id was read and the thread/started notification was read; when
\* the output ends before one of these reads returns its message, turn/start
\* is not written.
C23_TurnStartAfterHandshake ==
    \A k \in 1..Len(wire) :
        wire[k] = "turn/start" =>
            SubSeq(wire, 1, k - 1) =
                <<"initialize", "<- initialize", "initialized", "thread/start",
                  "<- thread/start", "<- thread/started">>

ErrorMsg == CHOOSE m \in CodexMsgs : m.method = "error"

\* what the error notification adds to out in the current state
ErrorEvents == NewEvents(CodexNotify(Cur, ErrorMsg))

\* C30: an error notification read during the turn opens a text block when
\* no block is open, its message is emitted as a text_delta on a text block
\* that is open, it emits no error event and no terminal event, and the
\* notification loop goes on.
C30_CodexErrorAsText ==
    /\ []((adapter = "codex" /\ pc = "turn") =>
            LET s2 == CodexNotify(Cur, ErrorMsg)
                n == Len(s2.out)
            IN  /\ (~text_started /\ ~thinking_started) =>
                      ErrorEvents = <<BlockStart(cur_idx, "text", "", ""),
                                      BlockDelta(cur_idx, "text_delta",
                                                 "Error: " \o ErrorMsg.delta)>>
                /\ s2.out[n].type = "content_block_delta"
                /\ s2.out[n].kind = "text_delta"
                /\ s2.out[n].text = "Error: " \o ErrorMsg.delta
                /\ s2.out[n].index \in OpenIn(s2.out, "text", n)
                /\ \A i \in 1..Len(ErrorEvents) :
                      ErrorEvents[i].type \in {"content_block_start",
                                               "content_block_delta"})
    /\ [][(adapter = "codex" /\ pc = "turn" /\ nread' = nread + 1
             /\ out' = CodexNotify(Cur, ErrorMsg).out) =>
          (pc' = "turn" /\ session' = session)]_vars

\* an error notification was read as the first notification of a turn, its
\* message went to a text block opened for it, and a later notification was
\* translated after it
C30_Witness ==
    /\ adapter = "codex" /\ pc = "turn"
    /\ Len(out) > 4
    /\ out[3] = BlockStart(0, "text", "", "")
    /\ out[4] = BlockDelta(0, "text_delta", "Error: boom")

\* C37: once the thread/start response with a thread id has been read, and
\* while the subprocess runs with its output open, the handshake can go on
\* to turn/start, in whichever order the response and the thread/started
\* notification were written.
C37_HandshakeOrderIndependent ==
    (/\ adapter = "codex" /\ pc = "thread_started"
     /\ session.proc = "running"
     /\ session.stdout \in {"live", "waiting"}) =>
        ENABLED CodexThreadStarted

\* ------------------------------------------------ openai/auth.py: get_auth

\* the skew buffer subtracted from a token's expiry
Skew == 60
\* the lifetime assumed for a refreshed token whose expiry cannot be parsed
DefaultLifetime == 3600

Callers == 1..NumCallers

\* A JWT: id tells tokens apart, exp is its "exp" claim (0: none / unparseable).
Token(i, e) == [id |-> i, exp |-> e]
NoToken == Token(0, 0)

\* parse_jwt_expiry(token): float(claims.get("exp", 0)), 0 on any error
parse_jwt_expiry(token) == token.exp

NoLocals == [access |-> NoToken, refresh |-> 0, new_access |-> NoToken,
             new_refresh |-> 0]

InitAuth ==
    /\ now = StartTime
    /\ auth_file \in
         {[exists |-> FALSE, access |-> NoToken, refresh |-> 0]}
         \cup [exists : {TRUE},
               access : {NoToken, Token(1, 0), Token(1, StartTime + 30),
                         Token(1, StartTime + 100)},
               refresh : {0, 1}]
    /\ cache = [token |-> NoToken, expires_at |-> 0]
    /\ apc = [p \in Callers |-> "idle"]
    /\ loc = [p \in Callers |-> NoLocals]
    /\ ret = [p \in Callers |-> NoToken]
    /\ refresh_count = 0
    /\ ncalls = 0
    /\ token_seq = 1

\* a variant that caches the token's expiry without the skew buffer
AuthReturnRawExpiry(p, token, expires_at) ==
    /\ cache' = [token |-> token, expires_at |-> expires_at + Skew]
    /\ loc' = [loc EXCEPT ![p] = NoLocals]
    /\ ret' = [ret EXCEPT ![p] = token]
    /\ apc' = [apc EXCEPT ![p] = "done"]

\* get_auth returns (token, expires_at) to handle, which stores both
AuthReturn(p, token, expires_at) ==
    /\ cache' = [token |-> token, expires_at |-> expires_at]
    /\ loc' = [loc EXCEPT ![p] = NoLocals]
    /\ ret' = [ret EXCEPT ![p] = token]
    /\ apc' = [apc EXCEPT ![p] = "done"]

\* get_auth raises: handle stores nothing, the caller gets the exception
AuthRaise(p, exc) ==
    /\ apc' = [apc EXCEPT ![p] = "failed"]
    /\ loc' = [loc EXCEPT ![p] = NoLocals]
    /\ ret' = [ret EXCEPT ![p] = [error |-> exc]]
    /\ UNCHANGED cache

\* handle calls get_auth(self._api_key, self._api_key_expires_at): the cached
\* token if it has not expired, else read_auth_file is awaited
AuthCall(p) ==
    /\ UNCHANGED notAuth
    /\ apc[p] \in {"idle", "done", "failed"} /\ ncalls < MaxCalls
    /\ ncalls' = ncalls + 1
    /\ IF cache.token # NoToken /\ now < cache.expires_at
       THEN AuthReturn(p, cache.token, cache.expires_at)
       ELSE IF ~auth_file.exists
            THEN AuthRaise(p, "Auth file not found")
            ELSE apc' = [apc EXCEPT ![p] = "reading"] /\ UNCHANGED <<cache, ret, loc>>
    /\ UNCHANGED <<now, auth_file, refresh_count, token_seq>>

\* a variant that sends the refresh exchange without asking for a refresh
\* token
AuthReadAlwaysRefresh(p) ==
    /\ UNCHANGED notAuth
    /\ apc[p] = "reading"
    /\ LET access_token == auth_file.access
           token_expiry == parse_jwt_expiry(access_token)
       IN IF access_token = NoToken
          THEN AuthRaise(p, "No access_token in auth file") /\ UNCHANGED refresh_count
          ELSE IF token_expiry # 0 /\ now < token_expiry - Skew
          THEN /\ AuthReturn(p, access_token, token_expiry - Skew)
               /\ UNCHANGED refresh_count
          ELSE /\ loc' = [loc EXCEPT ![p] = [NoLocals EXCEPT
                                               !.access = access_token,
                                               !.refresh = auth_file.refresh]]
               /\ refresh_count' = refresh_count + 1
               /\ apc' = [apc EXCEPT ![p] = "refreshing"]
               /\ UNCHANGED <<cache, ret>>
    /\ UNCHANGED <<now, auth_file, ncalls, token_seq>>

\* read_auth_file completed: the stored token if it is valid beyond the skew
\* buffer, else the refresh exchange is sent and awaited
AuthRead(p) ==
    /\ UNCHANGED notAuth
    /\ apc[p] = "reading"
    /\ LET access_token == auth_file.access
           token_expiry == parse_jwt_expiry(access_token)
       IN IF access_token = NoToken
          THEN AuthRaise(p, "No access_token in auth file") /\ UNCHANGED refresh_count
          ELSE IF token_expiry # 0 /\ now < token_expiry - Skew
          THEN /\ AuthReturn(p, access_token, token_expiry - Skew)
               /\ UNCHANGED refresh_count
          ELSE IF auth_file.refresh = 0
          THEN AuthRaise(p, "Token expired and no refresh_token")
               /\ UNCHANGED refresh_count
          ELSE /\ loc' = [loc EXCEPT ![p] = [NoLocals EXCEPT
                                               !.access = access_token,
                                               !.refresh = auth_file.refresh]]
               /\ refresh_count' = refresh_count + 1
               /\ apc' = [apc EXCEPT ![p] = "refreshing"]
               /\ UNCHANGED <<cache, ret>>
    /\ UNCHANGED <<now, auth_file, ncalls, token_seq>>

\* refresh_tokens: the response of the authorization endpoint.  A 200 body
\* holds a new access_token (exp absent, inside the skew buffer, or an hour
\* ahead) with a rotated refresh_token, or neither (exp = -1).
AuthRefreshed(p) ==
    /\ UNCHANGED notAuth
    /\ apc[p] = "refreshing"
    /\ \E status \in {200, 400} :
         IF status # 200
         THEN AuthRaise(p, "Token refresh failed") /\ UNCHANGED token_seq
         ELSE \E exp \in {-1, 0, now + 30, now + DefaultLifetime} :
                 /\ token_seq' = token_seq + 1
                 /\ loc' = [loc EXCEPT
                              ![p].new_access = IF exp # -1
                                                THEN Token(token_seq + 1, exp)
                                                ELSE NoToken,
                              ![p].new_refresh = IF exp # -1 THEN token_seq + 1 ELSE 0]
                 /\ apc' = [apc EXCEPT ![p] = "writing"]
                 /\ UNCHANGED <<cache, ret>>
    /\ UNCHANGED <<now, auth_file, refresh_count, ncalls>>

\* a variant whose write keeps the access token the file held
AuthPersistKeepsAccess(p) ==
    /\ UNCHANGED notAuth
    /\ apc[p] = "writing"
    /\ \E result \in {"written", "PermissionError", "OSError"} :
         LET l == loc[p]
             new_access_token == IF l.new_access # NoToken THEN l.new_access
                                 ELSE l.access
             parsed == parse_jwt_expiry(new_access_token)
             new_expiry == IF parsed = 0 THEN now + DefaultLifetime ELSE parsed
         IN /\ auth_file' = IF result = "written"
                            THEN [exists |-> TRUE,
                                  access |-> l.access,
                                  refresh |-> IF l.new_refresh # 0 THEN l.new_refresh
                                              ELSE l.refresh]
                            ELSE auth_file
            /\ IF result = "OSError"
               THEN AuthRaise(p, "OSError")
               ELSE AuthReturn(p, new_access_token, new_expiry - Skew)
    /\ UNCHANGED <<now, refresh_count, ncalls, token_seq>>

\* auth_data["tokens"].update(new_tokens), the write of the auth file
\* (PermissionError is swallowed, any other error is raised), the return
AuthPersist(p) ==
    /\ UNCHANGED notAuth
    /\ apc[p] = "writing"
    /\ \E result \in {"written", "PermissionError", "OSError"} :
         LET l == loc[p]
             new_access_token == IF l.new_access # NoToken THEN l.new_access
                                 ELSE l.access
             parsed == parse_jwt_expiry(new_access_token)
             new_expiry == IF parsed = 0 THEN now + DefaultLifetime ELSE parsed
         IN /\ auth_file' = IF result = "written"
                            THEN [exists |-> TRUE,
                                  access |-> new_access_token,
                                  refresh |-> IF l.new_refresh # 0 THEN l.new_refresh
                                              ELSE l.refresh]
                            ELSE auth_file
            /\ IF result = "OSError"
               THEN AuthRaise(p, "OSError")
               ELSE AuthReturn(p, new_access_token, new_expiry - Skew)
    /\ UNCHANGED <<now, refresh_count, ncalls, token_seq>>

\* OpenAIProvider.__init__: a provider built while no call is under way (the
\* process was started again) holds no key; the auth file is as it was left
OpenAIProviderInit ==
    /\ UNCHANGED notAuth
    /\ \A p \in Callers : apc[p] \in {"idle", "done", "failed"}
    /\ cache.token # NoToken
    /\ cache' = [token |-> NoToken, expires_at |-> 0]
    /\ UNCHANGED <<now, auth_file, apc, loc, ret, refresh_count, ncalls, token_seq>>

Tick ==
    /\ UNCHANGED notAuth
    /\ now < StartTime + MaxTicks * TickSeconds
    /\ now' = now + TickSeconds
    /\ UNCHANGED <<auth_file, cache, apc, loc, ret, refresh_count, ncalls, token_seq>>

\* C18: whenever get_auth returns, the expires_at it returns is later than
\* the current time, whatever the auth file held and whatever the refresh
\* response contained.
C18_ReturnedCredentialValid ==
    [][\A p \in Callers :
          (apc[p] # "done" /\ apc'[p] = "done") => cache'.expires_at > now]_vars

\* the stored access token is not valid beyond the skew buffer
StoredExpired ==
    /\ auth_file.access # NoToken
    /\ \/ parse_jwt_expiry(auth_file.access) = 0
       \/ now >= parse_jwt_expiry(auth_file.access) - Skew

\* C19: when get_auth has read an expired access token and no refresh token,
\* it raises the token-refresh error, sends no refresh exchange, and leaves
\* the auth file and the cached credential as they were.
C19_NoRefreshTokenFails ==
    [][\A p \in Callers :
          (AuthRead(p) /\ StoredExpired /\ auth_file.refresh = 0) =>
             /\ apc'[p] = "failed"
             /\ ret'[p] = [error |-> "Token expired and no refresh_token"]
             /\ refresh_count' = refresh_count
             /\ auth_file' = auth_file
             /\ cache' = cache]_vars

\* a second call, with a credential cached by the first, fails for want of
\* a refresh token
C19_Witness ==
    /\ \E p \in Callers :
          /\ apc[p] = "failed"
          /\ ret[p] = [error |-> "Token expired and no refresh_token"]
    /\ StoredExpired /\ auth_file.refresh = 0
    /\ cache.token # NoToken
    /\ refresh_count = 0

\* C20: once the refresh exchange has succeeded, get_auth returns the
\* refreshed token and handle caches it, whether the write of the auth file
\* succeeds, fails for want of permission, or fails in any other way.
C20_PersistFailureTolerated ==
    [][\A p \in Callers :
          AuthPersist(p) =>
             /\ apc'[p] = "done"
             /\ ret'[p] = (IF loc[p].new_access # NoToken THEN loc[p].new_access
                           ELSE loc[p].access)
             /\ cache'.token = ret'[p]]_vars

IdleStream ==
    /\ adapter = "" /\ pc = "" /\ out = <<>>
    /\ text_started = FALSE /\ text_idx = -1
    /\ thinking_started = FALSE /\ thinking_idx = -1
    /\ cur_idx = 0 /\ tools = <<>> /\ tool_order = <<>> /\ usage = NoneUsage
    /\ had_content = FALSE /\ reasoning_opaque = "" /\ first_data_seen = FALSE
    /\ nread = 0 /\ fault = "" /\ failure = "" /\ connections = 0
    /\ active_tools = <<>> /\ tool_counter = 0 /\ wire = <<>>
    /\ session = NoSession

NextAuth ==
    \/ \E p \in Callers : AuthCall(p)
    \/ \E p \in Callers : AuthRead(p)
    \/ \E p \in Callers : AuthRefreshed(p)
    \/ \E p \in Callers : AuthPersist(p)
    \/ OpenAIProviderInit
    \/ Tick

\* concurrent handle calls on one OpenAIProvider
InitAuthOnly == InitAuth /\ IdleStream /\ IdleDisp /\ IdleClient /\ IdlePipe /\ IdleCalc

SpecAuth == InitAuthOnly /\ [][NextAuth]_vars

\* a token issued by a refresh exchange (the auth file starts with token 1)
Refreshed(token) == token.id > 1

\* the test of get_auth on a token read from the auth file
ValidBeyondSkew(token) ==
    parse_jwt_expiry(token) # 0 /\ now < parse_jwt_expiry(token) - Skew

\* the call returns the token of the auth file and leaves the file alone,
\* without a refresh exchange
ReturnsPersisted(p) ==
    /\ apc'[p] = "done"
    /\ ret'[p] = auth_file.access
    /\ refresh_count' = refresh_count
    /\ auth_file' = auth_file

\* a refresh that changed the auth file left in it the token it returns
PersistedIsReturned(p) ==
    (AuthPersist(p) /\ auth_file' # auth_file) => auth_file'.access = ret'[p]

\* C38 as stated: a call with no cached key that reads a persisted refreshed
\* token whose expiry has not passed returns that token without another
\* refresh exchange.
C38_PersistedTokenReused ==
    [][\A p \in Callers :
          /\ PersistedIsReturned(p)
          /\ (/\ AuthRead(p) /\ cache.token = NoToken
              /\ Refreshed(auth_file.access)
              /\ now < parse_jwt_expiry(auth_file.access)) =>
                 ReturnsPersisted(p)]_vars

\* C38, with the validity get_auth tests: a call with no cached key that
\* reads a persisted refreshed token whose exp claim is more than the skew
\* buffer ahead returns that token without another refresh exchange.
C38_PersistedTokenReusedBeyondSkew ==
    [][\A p \in Callers :
          /\ PersistedIsReturned(p)
          /\ (/\ AuthRead(p) /\ cache.token = NoToken
              /\ Refreshed(auth_file.access)
              /\ ValidBeyondSkew(auth_file.access)) =>
                 ReturnsPersisted(p)]_vars

\* one call refreshed and persisted the token, the provider was built anew,
\* and a call that found no cached key is about to read the auth file
C38_Witness ==
    \E p, q \in Callers :
        /\ p # q
        /\ apc[p] = "reading" /\ cache.token = NoToken
        /\ Refreshed(auth_file.access) /\ ValidBeyondSkew(auth_file.access)
        /\ apc[q] = "done" /\ ret[q] = auth_file.access
        /\ refresh_count = 1

\* ------------------------------------------- properties of the credentials

\* the expiry of the cached token: the exp claim of the JWT, or, for a token
\* without one, the expiry recorded for it
CachedExpiry ==
    IF parse_jwt_expiry(cache.token) # 0 THEN parse_jwt_expiry(cache.token)
    ELSE cache.expires_at + Skew

\* C17: a call of get_auth returns the cached token at once, without reading
\* the auth file and without a refresh exchange, exactly when a token is
\* cached and the current time is before its expiry minus the 60-second
\* skew buffer.
C17_CacheHitIffBeforeSkew ==
    [][\A p \in Callers :
          AuthCall(p) =>
             ((/\ apc'[p] = "done"
               /\ ret'[p] = cache.token
               /\ cache' = cache
               /\ refresh_count' = refresh_count)
              <=> (cache.token # NoToken /\ now < CachedExpiry - Skew))]_vars

\* a second call finds the cached token less than 60 seconds from its expiry
\* and goes on to read the auth file
C17_Witness ==
    /\ ncalls = 2
    /\ cache.token # NoToken
    /\ parse_jwt_expiry(cache.token) > now
    /\ parse_jwt_expiry(cache.token) - now < Skew
    /\ \E p \in Callers : apc[p] = "reading"


\* C8: refresh exchanges are single-flight: at no time are two of them in
\* progress for the same credential store.
C8_SingleFlightRefresh ==
    Cardinality({p \in Callers : apc[p] = "refreshing"}) <= 1

\* --------------------------------------------- server.py: AnthropicBridge

\* Python's optional values: None, or a value
None == <<>>
Some(x) == <<x>>
The(o) == o[1]

\* bool(v) of an optional string: None and "" are false
Truthy(v) == v # None /\ v # Some("")

\* A model identifier is the sequence of its pieces; "/" is a piece of its
\* own and no other piece holds one.  <<>> is the empty string, the default
\* of body.get("model", "").
Models ==
    { <<"openai", "/", "gpt-x">>,
      <<"copilot", "/", "gpt-5:high">>,
      <<"openrouter", "/", "meta", "/", "llama">>,
      <<"meta", "/", "llama">>,
      <<"/", "gpt-x">>,
      <<"openai">>,
      <<"gpt-x">>,
      <<>> }

ProviderTypes == <<"openrouter", "copilot", "openai">>

\* str.startswith / str.removeprefix
startswith(str, prefix) ==
    /\ Len(str) >= Len(prefix)
    /\ SubSeq(str, 1, Len(prefix)) = prefix

removeprefix(str, prefix) ==
    IF startswith(str, prefix) THEN SubSeq(str, Len(prefix) + 1, Len(str))
    ELSE str

\* auth_file_exists(): AUTH_FILE.exists()
auth_file_exists == auth_file.exists

\* the constructors; id tells instances apart
OpenRouterProvider(model, api_key) ==
    [cls |-> "OpenRouterProvider", model |-> model, credential |-> api_key,
     id |-> nrequests + 1]

OpenAIProvider(target_model) ==
    [cls |-> "OpenAIProvider", model |-> target_model,
     target_model |-> removeprefix(target_model, <<"openai", "/">>),
     id |-> nrequests + 1]

CopilotProvider(target_model, token) ==
    [cls |-> "CopilotProvider", model |-> target_model,
     target_model |-> removeprefix(target_model, <<"copilot", "/">>),
     credential |-> token, id |-> nrequests + 1]

_get_requested_provider(model) ==
    IF startswith(model, <<"openai", "/">>) THEN Some("openai")
    ELSE IF startswith(model, <<"copilot", "/">>) THEN Some("copilot")
    ELSE IF startswith(model, <<"openrouter", "/">>) THEN Some("openrouter")
    ELSE None

\* a variant that splits at the last "/" instead of the first
ModelForProviderLastSlash(model, provider_type) ==
    LET slashes == {i \in 1..Len(model) : model[i] = "/"}
        last == CHOOSE i \in slashes : \A j \in slashes : i >= j
        model_name == IF slashes # {} THEN SubSeq(model, last + 1, Len(model))
                      ELSE model
    IN  IF provider_type = "openrouter" THEN <<"openrouter", "/">> \o model_name
        ELSE IF provider_type = "copilot" THEN <<"copilot", "/">> \o model_name
        ELSE <<"openai", "/">> \o model_name

\* model.split("/", 1)[1] if "/" in model else model, behind the prefix
_model_for_provider(model, provider_type) ==
    LET slashes == {i \in 1..Len(model) : model[i] = "/"}
        first == CHOOSE i \in slashes : \A j \in slashes : i <= j
        model_name == IF slashes # {} THEN SubSeq(model, first + 1, Len(model))
                      ELSE model
    IN  IF provider_type = "openrouter" THEN <<"openrouter", "/">> \o model_name
        ELSE IF provider_type = "copilot" THEN <<"copilot", "/">> \o model_name
        ELSE <<"openai", "/">> \o model_name

\* the three memo dicts
Clients ==
    [openrouter |-> _openrouter_clients, copilot |-> _copilot_clients,
     openai |-> _openai_clients]

\* a variant that stores a new instance whether or not model is a key
SetAlways(dict, model, instance) ==
    (model :> instance) @@ [k \in DOMAIN dict \ {model} |-> dict[k]]

\* dict[model] = instance, when model is not a key yet
SetDefault(dict, model, instance) ==
    IF model \in DOMAIN dict THEN dict ELSE (model :> instance) @@ dict

\* a variant that builds the OpenAI adapter without asking for the
\* credential file
MakeProviderUnchecked(model, provider_type) ==
    IF provider_type = "openrouter" /\ Truthy(config.openrouter_api_key)
    THEN LET d == SetDefault(_openrouter_clients, model,
                     OpenRouterProvider(model, config.openrouter_api_key))
         IN  [provider |-> Some(d[model]),
              clients |-> [Clients EXCEPT !.openrouter = d]]
    ELSE IF provider_type = "copilot" /\ Truthy(config.copilot_token)
    THEN LET d == SetDefault(_copilot_clients, model,
                     CopilotProvider(model, config.copilot_token))
         IN  [provider |-> Some(d[model]),
              clients |-> [Clients EXCEPT !.copilot = d]]
    ELSE IF provider_type = "openai"
    THEN LET d == SetDefault(_openai_clients, model, OpenAIProvider(model))
         IN  [provider |-> Some(d[model]),
              clients |-> [Clients EXCEPT !.openai = d]]
    ELSE [provider |-> None, clients |-> Clients]

\* _make_provider: the provider it returns and the memo dicts it leaves
_make_provider(model, provider_type) ==
    IF provider_type = "openrouter" /\ Truthy(config.openrouter_api_key)
    THEN LET d == SetDefault(_openrouter_clients, model,
                     OpenRouterProvider(model, config.openrouter_api_key))
         IN  [provider |-> Some(d[model]),
              clients |-> [Clients EXCEPT !.openrouter = d]]
    ELSE IF provider_type = "copilot" /\ Truthy(config.copilot_token)
    THEN LET d == SetDefault(_copilot_clients, model,
                     CopilotProvider(model, config.copilot_token))
         IN  [provider |-> Some(d[model]),
              clients |-> [Clients EXCEPT !.copilot = d]]
    ELSE IF provider_type = "openai" /\ auth_file_exists
    THEN LET d == SetDefault(_openai_clients, model, OpenAIProvider(model))
         IN  [provider |-> Some(d[model]),
              clients |-> [Clients EXCEPT !.openai = d]]
    ELSE [provider |-> None, clients |-> Clients]

\* _get_provider: the requested provider first, then the others in order; an
\* attempt that returns None has left the memo dicts alone
_get_provider(model) ==
    LET requested_provider == _get_requested_provider(model)
        attempts == (IF requested_provider # None
                     THEN <<The(requested_provider)>> ELSE <<>>)
                    \o SelectSeq(ProviderTypes,
                                 LAMBDA t : Some(t) # requested_provider)
        made == [i \in 1..Len(attempts) |->
                    _make_provider(_model_for_provider(model, attempts[i]),
                                   attempts[i])]
        hits == {i \in 1..Len(attempts) : made[i].provider # None}
    IN  IF hits = {} THEN [provider |-> None, clients |-> Clients]
        ELSE made[CHOOSE i \in hits : \A j \in hits : i <= j]

NoProviderMessage ==
    "No provider configured. Set OPENROUTER_API_KEY, GITHUB_COPILOT_TOKEN, or configure OpenAI auth."

JSONResponse(status_code, content) ==
    [status_code |-> status_code, media_type |-> "application/json",
     content |-> content]

\* the body of a StreamingResponse is provider.handle(body), not yet started
StreamingResponse(provider) ==
    [status_code |-> 200, media_type |-> "text/event-stream",
     provider |-> provider, started |-> FALSE]

InitDispatch ==
    /\ config \in [openrouter_api_key : {None, Some(""), Some("sk-or")},
                   copilot_token : {None, Some(""), Some("ghu")}]
    /\ _openrouter_clients = <<>>
    /\ _openai_clients = <<>>
    /\ _copilot_clients = <<>>
    /\ response = [status_code |-> 0]
    /\ request = [model |-> <<>>]
    /\ handled = 0
    /\ nrequests = 0
    \* the credential file is there or not; nobody calls get_auth
    /\ auth_file \in {[exists |-> FALSE, access |-> NoToken, refresh |-> 0],
                      [exists |-> TRUE, access |-> Token(1, 0), refresh |-> 1]}
    /\ now = 0 /\ cache = <<>> /\ apc = <<>> /\ loc = <<>> /\ ret = <<>>
    /\ refresh_count = 0 /\ ncalls = 0 /\ token_seq = 0

\* POST /v1/messages.  request keeps what the handler met: the credentials
\* available, the memo dicts and the generators started so far, and the
\* request before it with its response.
messages(model) ==
    /\ UNCHANGED notDisp
    /\ nrequests < MaxRequests
    /\ nrequests' = nrequests + 1
    /\ request' = [model |-> model,
                   available |-> [openrouter |-> Truthy(config.openrouter_api_key),
                                  copilot |-> Truthy(config.copilot_token),
                                  openai |-> auth_file_exists],
                   clients |-> Clients,
                   handled |-> handled,
                   previous |-> [model |-> request.model,
                                 response |-> response]]
    /\ LET got == _get_provider(model)
       IN  /\ _openrouter_clients' = got.clients.openrouter
           /\ _copilot_clients' = got.clients.copilot
           /\ _openai_clients' = got.clients.openai
           /\ response' =
                IF got.provider = None
                THEN JSONResponse(401,
                         [error |-> [type |-> "authentication_error",
                                     message |-> NoProviderMessage]])
                ELSE StreamingResponse(The(got.provider))
    /\ UNCHANGED <<config, handled, auth_file>>

\* the server iterates the body of the StreamingResponse: provider.handle
\* starts, and with it the adapter's upstream connection
IterateBody ==
    /\ UNCHANGED notDisp
    /\ response.status_code = 200
    /\ ~response.started
    /\ response' = [response EXCEPT !.started = TRUE]
    /\ handled' = handled + 1
    /\ UNCHANGED <<config, _openrouter_clients, _openai_clients,
                   _copilot_clients, request, nrequests, auth_file>>

\* the user logs in or out with the codex CLI between two requests
AuthFileChanges ==
    /\ UNCHANGED notDisp
    /\ auth_file' = IF auth_file.exists
                    THEN [exists |-> FALSE, access |-> NoToken, refresh |-> 0]
                    ELSE [exists |-> TRUE, access |-> Token(1, 0), refresh |-> 1]
    /\ UNCHANGED dispVars

NextDispatch ==
    \/ \E model \in Models : messages(model)
    \/ IterateBody
    \/ AuthFileChanges

\* requests reaching one AnthropicBridge
InitDispatchOnly == InitDispatch /\ IdleStream /\ IdleClient /\ IdlePipe /\ IdleCalc

SpecDispatch == InitDispatchOnly /\ [][NextDispatch]_vars

\* the provider a request's identifier names: its first piece, when a "/"
\* follows it and it is one of the three provider names
NamedProvider(model) ==
    IF Len(model) >= 2 /\ model[2] = "/"
       /\ \E i \in 1..Len(ProviderTypes) : ProviderTypes[i] = model[1]
    THEN Some(model[1]) ELSE None

\* the identifier without its prefix: what follows the first "/", or all of
\* it when it has none
RestOf(model) ==
    IF \E i \in 1..Len(model) : model[i] = "/"
    THEN LET i == CHOOSE k \in 1..Len(model) :
                     model[k] = "/" /\ \A j \in 1..(k - 1) : model[j] # "/"
         IN  [j \in 1..(Len(model) - i) |-> model[i + j]]
    ELSE model

ClassOf(provider_type) ==
    IF provider_type = "openrouter" THEN "OpenRouterProvider"
    ELSE IF provider_type = "copilot" THEN "CopilotProvider"
    ELSE "OpenAIProvider"

AnyAvailable(available) ==
    available.openrouter \/ available.copilot \/ available.openai

\* the provider the claim expects for a request
ExpectedProvider(model, available) ==
    IF NamedProvider(model) # None /\ available[The(NamedProvider(model))]
    THEN The(NamedProvider(model))
    ELSE ProviderTypes[CHOOSE i \in 1..Len(ProviderTypes) :
                          /\ available[ProviderTypes[i]]
                          /\ \A j \in 1..(i - 1) : ~available[ProviderTypes[j]]]

C10_NoCredentialIs401 ==
    (nrequests > 0 /\ ~AnyAvailable(request.available)) =>
        /\ response.status_code = 401
        /\ response.media_type = "application/json"
        /\ response.content.error.type = "authentication_error"
        /\ Clients = request.clients
        /\ handled = request.handled

\* openai/gpt-x is requested after the credential file went away; an adapter
\* memoized by an earlier request is still there
C10_Witness ==
    /\ nrequests > 0
    /\ request.model = <<"openai", "/", "gpt-x">>
    /\ ~AnyAvailable(request.available)
    /\ response.status_code = 401
    /\ _openai_clients # <<>>
    /\ handled = 1

\* C11: the authentication error tells which provider the identifier
\* requested: two requests that name different providers and both fail every
\* dispatch attempt are answered by different error bodies.
C11_ErrorNamesRequestedProvider ==
    (/\ nrequests >= 2
     /\ response.status_code = 401
     /\ request.previous.response.status_code = 401
     /\ NamedProvider(request.model) # None
     /\ NamedProvider(request.previous.model) # None
     /\ NamedProvider(request.model) # NamedProvider(request.previous.model))
    => response.content # request.previous.response.content

\* the memo dict of the class an adapter belongs to
DictOf(clients, provider) ==
    IF provider.cls = "OpenRouterProvider" THEN clients.openrouter
    ELSE IF provider.cls = "CopilotProvider" THEN clients.copilot
    ELSE clients.openai

\* C16: one adapter instance is constructed for a (provider, identifier)
\* pair, in whatever order first-use requests are served: an instance once
\* memoized is never replaced, and the adapter a request is answered with is
\* the memoized instance of its pair.
C16_OneInstancePerIdentifier ==
    [][/\ \A t \in {"openrouter", "copilot", "openai"} :
            \A k \in DOMAIN Clients[t] :
                k \in DOMAIN Clients'[t] /\ Clients'[t][k] = Clients[t][k]
       /\ (nrequests' # nrequests /\ response'.status_code = 200) =>
            LET adapter_ == response'.provider
                dict == DictOf(Clients', adapter_)
            IN  /\ adapter_.model \in DOMAIN dict
                /\ dict[adapter_.model] = adapter_]_vars

\* the second of two requests for openai/gpt-x is answered with the instance
\* the first one constructed
C16_Witness ==
    /\ nrequests = 2
    /\ request.model = <<"openai", "/", "gpt-x">>
    /\ request.previous.model = request.model
    /\ request.previous.response.status_code = 200
    /\ response.status_code = 200
    /\ response.provider = request.previous.response.provider
    /\ response.provider.id = 1

\* ---------------------- codex.py: one CodexClient serving two handle calls

Calls == {1, 2}

\* the locals of a handle call that has reached its notification loop
CodexLocals ==
    [out |-> <<MessageStart(Usage2(0, 0)), Ping>>,
     text_started |-> FALSE, text_idx |-> 0,
     thinking_started |-> FALSE, thinking_idx |-> -1,
     cur_idx |-> 0, tools |-> <<>>, tool_order |-> <<>>,
     usage |-> Usage2(0, 0),
     active_tools |-> <<>>, tool_counter |-> 0]

\* the notifications the two calls read: text, and commands that start and
\* complete under the item ids the subprocesses give them
ClientMsgs ==
    {m \in CodexMsgs :
        \/ m.method = "item/agentMessage/delta" /\ m.delta # ""
        \/ m.item = "commandExecution"}

\* self._tool_counter and self._active_tools are set in __init__; the locals
\* belong to each call.  fed keeps what each call has read.
InitClient ==
    client = [active_tools |-> <<>>, tool_counter |-> 0,
              locals |-> [c \in Calls |-> CodexLocals],
              fed |-> [c \in Calls |-> <<>>]]

\* call c reads notification m: the loop body runs on the call's locals and
\* on the instance's _active_tools and _tool_counter
ClientNotify(c, m) ==
    /\ UNCHANGED notClient
    /\ Len(client.fed[c]) < MaxNotifications
    /\ LET s == [client.locals[c] EXCEPT
                    !.active_tools = client.active_tools,
                    !.tool_counter = client.tool_counter]
           t == CodexNotify(s, m)
       IN  client' =
             [active_tools |-> t.active_tools,
              tool_counter |-> t.tool_counter,
              locals |-> [client.locals EXCEPT
                             ![c] = [t EXCEPT !.active_tools = <<>>,
                                              !.tool_counter = 0]],
              fed |-> [client.fed EXCEPT ![c] = Append(@, m)]]

NextClient == \E c \in Calls, m \in ClientMsgs : ClientNotify(c, m)

InitClientOnly == InitClient /\ IdleStream /\ IdleAuth /\ IdleDisp /\ IdlePipe /\ IdleCalc

SpecClient == InitClientOnly /\ [][NextClient]_vars

\* what one call emits for the notifications msgs when it runs alone
RECURSIVE Replay(_, _)
Replay(s, msgs) ==
    IF msgs = <<>> THEN s ELSE Replay(CodexNotify(s, Head(msgs)), Tail(msgs))

\* an event sequence without its tool identifiers, which are drawn anew
\* for every tool
WithoutIds(events) == [i \in 1..Len(events) |-> [events[i] EXCEPT !.id = ""]]

\* C15: the events a call emits depend on its own notifications only: they
\* are, tool identifiers aside, what the call emits for the same
\* notifications when no other call uses the adapter instance.
C15_StreamStateNotShared ==
    \A c \in Calls :
        WithoutIds(client.locals[c].out)
            = WithoutIds(Replay(CodexLocals, client.fed[c]).out)

\* ------------- codex.py: read_master, output_queue and the PtyLineReader

\* asyncio.Queue(maxsize=256)
maxsize == 256

\* the empty chunk b"" that read_master queues when it ends
EofChunk == 0

\* Chunks are numbered in the order os.read returned them.  reader_task is
\* where read_master waits: "os.read" (run_in_executor), "put" (put(data) on
\* a full queue, the chunk in held), "put_eof" (put(b"") on a full queue),
\* "done".  taken is what PtyLineReader.readline got from the queue, handle
\* is where the handle call is: "reading" (inside the try block), "joining"
\* (the finally block awaits the cancelled reader task), "closed".
InitPipe ==
    pipe = [produced |-> 0, held |-> EofChunk, output_queue |-> <<>>,
            reader_task |-> "os.read", taken |-> <<>>, handle |-> "reading",
            resumed |-> 0]

\* output_queue.full()
Full(q) == Len(q) >= maxsize

\* finally: await output_queue.put(b""), which waits while the queue is full
PutEof(pp) ==
    IF Full(pp.output_queue)
    THEN [pp EXCEPT !.reader_task = "put_eof", !.held = EofChunk]
    ELSE [pp EXCEPT !.reader_task = "done", !.held = EofChunk,
                    !.output_queue = Append(@, EofChunk)]

\* a variant whose put never waits for room in the queue
ReadMasterPutNowait ==
    /\ UNCHANGED notPipe
    /\ pipe.reader_task = "os.read"
    /\ pipe.produced < MaxChunks
    /\ pipe' = [pipe EXCEPT !.produced = @ + 1,
                            !.output_queue = Append(@, pipe.produced + 1)]

\* os.read returns data; put(data) returns at once when the queue has room
\* and waits when it is full
ReadMasterData ==
    /\ UNCHANGED notPipe
    /\ pipe.reader_task = "os.read"
    /\ pipe.produced < MaxChunks
    /\ LET chunk == pipe.produced + 1
       IN  pipe' = IF Full(pipe.output_queue)
                   THEN [pipe EXCEPT !.produced = chunk, !.held = chunk,
                                     !.reader_task = "put"]
                   ELSE [pipe EXCEPT !.produced = chunk,
                                     !.output_queue = Append(@, chunk)]

\* os.read returns b"" (break) or raises OSError: the finally clause runs
ReadMasterEof ==
    /\ UNCHANGED notPipe
    /\ pipe.reader_task = "os.read"
    /\ pipe' = PutEof(pipe)

\* a waiting put is woken once the queue has room
PutResumes ==
    /\ UNCHANGED notPipe
    /\ pipe.reader_task \in {"put", "put_eof"}
    /\ ~Full(pipe.output_queue)
    /\ pipe' = [pipe EXCEPT
                  !.output_queue = Append(@, pipe.held),
                  !.held = EofChunk,
                  !.reader_task = IF @ = "put" THEN "os.read" ELSE "done",
                  !.resumed = IF pipe.reader_task = "put" THEN @ + 1 ELSE @]

\* PtyLineReader.readline: chunk = await self._queue.get()
QueueGet ==
    /\ UNCHANGED notPipe
    /\ pipe.handle = "reading"
    /\ pipe.output_queue # <<>>
    /\ pipe' = [pipe EXCEPT !.taken = Append(@, Head(pipe.output_queue)),
                            !.output_queue = Tail(@)]

\* handle leaves the try block: reader_task.cancel().  CancelledError is
\* raised where read_master waits; outside its finally clause the finally
\* clause then runs put(b""), inside it the task ends.
HandleFinally ==
    /\ UNCHANGED notPipe
    /\ pipe.handle = "reading"
    /\ LET pp == [pipe EXCEPT !.handle = "joining"]
       IN  pipe' = CASE pipe.reader_task \in {"os.read", "put"} -> PutEof(pp)
                     [] pipe.reader_task = "put_eof" ->
                           [pp EXCEPT !.reader_task = "done"]
                     [] OTHER -> pp

\* await reader_task returns; os.close(master_fd), proc.terminate()
ReaderJoined ==
    /\ UNCHANGED notPipe
    /\ pipe.handle = "joining"
    /\ pipe.reader_task = "done"
    /\ pipe' = [pipe EXCEPT !.handle = "closed"]

NextPipe ==
    \/ ReadMasterData \/ ReadMasterEof \/ PutResumes \/ QueueGet
    \/ HandleFinally \/ ReaderJoined

InitPipeOnly == InitPipe /\ IdleStream /\ IdleAuth /\ IdleDisp /\ IdleClient /\ IdleCalc

SpecPipe == InitPipeOnly /\ [][NextPipe]_vars

\* the data chunks of a sequence of chunks
Data(q) == SelectSeq(q, LAMBDA c : c # EofChunk)

\* the chunks os.read has returned, in the order it returned them
Produced == [i \in 1..pipe.produced |-> i]

\* the chunk a waiting put(data) holds
Held == IF pipe.reader_task = "put" THEN <<pipe.held>> ELSE <<>>

\* the queue is within its bound, what readline has taken are the first
\* chunks os.read returned, each once and in order, and while handle reads,
\* every chunk not yet taken is in the queue or held by the waiting put
QueueIntact ==
    /\ Len(pipe.output_queue) <= maxsize
    /\ Data(pipe.taken) = SubSeq(Produced, 1, Len(Data(pipe.taken)))
    /\ pipe.handle = "reading" =>
          Data(pipe.taken) \o Data(pipe.output_queue) \o Held = Produced

\* C22: output_queue never holds more than 256 chunks; a put that found it
\* full waits until readline has taken a chunk; every chunk os.read returned
\* reaches readline once and in the order it was read.
C22_BoundedLosslessQueue ==
    [][/\ QueueIntact /\ QueueIntact'
       /\ (pipe.reader_task = "put" /\ pipe'.reader_task # "put"
             /\ pipe'.handle = "reading") =>
             /\ Len(pipe.output_queue) < maxsize
             /\ pipe'.output_queue = Append(pipe.output_queue, pipe.held)]_vars

\* a put(data) waited on the full queue and was resumed, and readline has
\* taken the chunk it held
C22_Witness ==
    /\ pipe.resumed > 0
    /\ pipe.handle = "reading"
    /\ MaxChunks \in {pipe.taken[i] : i \in 1..Len(pipe.taken)}

\* the event loop runs a task that is ready: a put that can be resumed is
\* resumed, and an await on a task that has ended returns
SpecPipeFair ==
    SpecPipe /\ WF_vars(PutResumes) /\ WF_vars(ReaderJoined)

\* C36: the cleanup of handle always completes: once the reader task is
\* cancelled and awaited, the await returns, whatever the output queue held
\* at that moment.
C36_CleanupCompletes ==
    (pipe.handle = "joining") ~> (pipe.handle = "closed")

\* ------------------------------------------- utils.py: map_reasoning_effort

\* the budget_tokens from which each effort is returned
XHighBudget == 32000
HighBudget == 15000
MediumBudget == 10000
LowBudget == 1

\* str.lower() of a piece of a model identifier
Lower(piece) == IF piece = "GPT-5.2" THEN "gpt-5.2" ELSE piece

lower(str) == [i \in 1..Len(str) |-> Lower(str[i])]

\* str.split("/", 1)[1] of a string that holds a "/"
AfterFirstSlash(str) ==
    LET i == CHOOSE i \in 1..Len(str) :
                 str[i] = "/" /\ \A j \in 1..(i - 1) : str[j] # "/"
    IN  SubSeq(str, i + 1, Len(str))

\* _model_supports_xhigh(model_id)
_model_supports_xhigh(model_id) ==
    IF model_id = None \/ The(model_id) = <<>> THEN FALSE
    ELSE LET l == lower(The(model_id))
             name == IF \E i \in 1..Len(l) : l[i] = "/"
                     THEN AfterFirstSlash(l) ELSE l
         IN  \/ startswith(name, <<"gpt-5.1-codex-max">>)
             \/ startswith(name, <<"gpt-5.2">>)
             \/ startswith(name, <<"gpt-5.3">>)

\* a variant whose medium tier starts one token late
MapReasoningEffortLateMedium(budget_tokens, model_id) ==
    IF budget_tokens = None \/ The(budget_tokens) = 0 THEN None
    ELSE LET b == The(budget_tokens)
         IN  IF b >= XHighBudget
             THEN (IF _model_supports_xhigh(model_id) THEN Some("xhigh")
                   ELSE Some("high"))
             ELSE IF b >= HighBudget THEN Some("high")
             ELSE IF b > MediumBudget THEN Some("medium")
             ELSE IF b >= LowBudget THEN Some("low")
             ELSE None

\* map_reasoning_effort(budget_tokens, model_id)
map_reasoning_effort(budget_tokens, model_id) ==
    IF budget_tokens = None \/ The(budget_tokens) = 0 THEN None
    ELSE LET b == The(budget_tokens)
         IN  IF b >= XHighBudget
             THEN (IF _model_supports_xhigh(model_id) THEN Some("xhigh")
                   ELSE Some("high"))
             ELSE IF b >= HighBudget THEN Some("high")
             ELSE IF b >= MediumBudget THEN Some("medium")
             ELSE IF b >= LowBudget THEN Some("low")
             ELSE None

\* the budgets a call is made with: around every threshold, negative, zero,
\* the largest
Budgets ==
    {t + d : t \in {LowBudget, MediumBudget, HighBudget, XHighBudget},
             d \in {-1, 0, 1}}
    \cup {-5, MaxBudget}

EffortModels ==
    { <<"gpt-5.2">>, <<"gpt-5.3", "-codex">>, <<"GPT-5.2">>,
      <<"openai", "/", "gpt-5.1-codex-max">>, <<"gpt-5.1-codex">>,
      <<"copilot", "/", "gpt-4o">>, <<"gpt-5.2", "/", "gpt-4o">>, <<>> }

InitEffort ==
    calc \in [budget_tokens : {None} \cup {Some(b) : b \in Budgets},
              model_id : {None} \cup {Some(m) : m \in EffortModels},
              returned : {FALSE}, result : {None}]

CallMapReasoningEffort ==
    /\ UNCHANGED notCalc
    /\ ~calc.returned
    /\ calc' = [calc EXCEPT
                  !.returned = TRUE,
                  !.result = map_reasoning_effort(calc.budget_tokens,
                                                  calc.model_id)]

NextEffort == CallMapReasoningEffort

InitEffortOnly ==
    InitEffort /\ IdleStream /\ IdleAuth /\ IdleDisp /\ IdleClient /\ IdlePipe

SpecEffort == InitEffortOnly /\ [][NextEffort]_vars

\* the order of the tiers
Rank(effort) ==
    CASE effort = None -> 0
      [] effort = Some("low") -> 1
      [] effort = Some("medium") -> 2
      [] effort = Some("high") -> 3
      [] effort = Some("xhigh") -> 4

\* the table of tiers
TierOf(b, xhigh) ==
    IF b <= 0 THEN None
    ELSE IF b <= 9999 THEN Some("low")
    ELSE IF b <= 14999 THEN Some("medium")
    ELSE IF b <= 31999 THEN Some("high")
    ELSE IF xhigh THEN Some("xhigh") ELSE Some("high")

\* C33: map_reasoning_effort returns nothing for an absent, zero or negative
\* budget, low for 1..9999, medium for 10000..14999, high for 15000..31999,
\* and from 32000 on xhigh when the model supports it and high otherwise; for
\* one model a larger budget never gets a lower tier.
C33_EffortTable ==
    calc.returned =>
        /\ calc.result =
              (IF calc.budget_tokens = None THEN None
               ELSE TierOf(The(calc.budget_tokens),
                           _model_supports_xhigh(calc.model_id)))
        /\ \A b \in Budgets :
              (calc.budget_tokens # None /\ b >= The(calc.budget_tokens)) =>
                 Rank(map_reasoning_effort(Some(b), calc.model_id))
                     >= Rank(calc.result)

C33_Witness ==
    /\ calc.returned
    /\ calc.budget_tokens = Some(XHighBudget)
    /\ calc.model_id = Some(<<"openai", "/", "gpt-5.1-codex-max">>)
    /\ calc.result = Some("xhigh")

\* ------------------------------------------------ codex.py: PtyLineReader

MaxChunkLen == 2
MaxStreamLen == 2

\* the bytes of the stream: the newline byte and one other byte
NL == "\n"
Bytes == {NL, "a"}

\* the non-empty chunks os.read returns, and the streams made of them
ByteSeqs(n) == UNION {[1..k -> Bytes] : k \in 0..n}
DataChunks == ByteSeqs(MaxChunkLen) \ {<<>>}
Streams == UNION {[1..k -> DataChunks] : k \in 0..MaxStreamLen}

RECURSIVE Concat(_)
Concat(ss) == IF ss = <<>> THEN <<>> ELSE Head(ss) \o Concat(Tail(ss))

\* self._buffer.find(b"\n"): the index of the first newline byte, from 0,
\* or -1
find(buffer) ==
    IF \E i \in 1..Len(buffer) : buffer[i] = NL
    THEN (CHOOSE i \in 1..Len(buffer) :
              buffer[i] = NL /\ \A j \in 1..(i - 1) : buffer[j] # NL) - 1
    ELSE -1

\* PtyLineReader.readline, from the buffer and the queue it finds: the line
\* it returns and what it leaves.  blocked: the queue was empty at
\* self._queue.get(), and nothing is put any more, so the call never returns.
RECURSIVE readline(_)
readline(r) ==
    LET newline == find(r._buffer)
    IN  IF newline # -1
        THEN [line |-> SubSeq(r._buffer, 1, newline + 1),
              _buffer |-> SubSeq(r._buffer, newline + 2, Len(r._buffer)),
              queue |-> r.queue, blocked |-> FALSE]
        ELSE IF r.queue = <<>>
        THEN [line |-> <<>>, _buffer |-> r._buffer, queue |-> r.queue,
              blocked |-> TRUE]
        ELSE IF Head(r.queue) = <<>>
        THEN [line |-> r._buffer, _buffer |-> <<>>, queue |-> Tail(r.queue),
              blocked |-> FALSE]
        ELSE readline([_buffer |-> r._buffer \o Head(r.queue),
                       queue |-> Tail(r.queue)])

\* read_master has ended: the queue holds the chunks of the whole stream and
\* the empty chunk after them; PtyLineReader.__init__
InitLines ==
    \E stream \in Streams :
        calc = [chunks |-> stream, queue |-> Append(stream, <<>>),
                _buffer |-> <<>>, lines |-> <<>>, blocked |-> FALSE]

\* one call of readline by the only reader
Readline ==
    /\ UNCHANGED notCalc
    /\ ~calc.blocked
    /\ LET r == readline([_buffer |-> calc._buffer, queue |-> calc.queue])
       IN  calc' = [calc EXCEPT
                      !._buffer = r._buffer, !.queue = r.queue,
                      !.blocked = r.blocked,
                      !.lines = IF r.blocked THEN @ ELSE Append(@, r.line)]

NextLines == Readline

InitLinesOnly ==
    InitLines /\ IdleStream /\ IdleAuth /\ IdleDisp /\ IdleClient /\ IdlePipe

SpecLines == InitLinesOnly /\ [][NextLines]_vars

\* the lines returned so far, with what is still buffered and queued, are
\* the stream
Lossless ==
    Concat(calc.lines) \o calc._buffer \o Concat(calc.queue)
        = Concat(calc.chunks)

\* every line returned before the last data line ends with a newline byte
\* and holds no other; the last data line holds none before its last byte
LinesWellFormed ==
    \A i \in 1..Len(calc.lines) :
        LET line == calc.lines[i]
        IN  /\ \A j \in 1..(Len(line) - 1) : line[j] # NL
            /\ (\E k \in (i + 1)..Len(calc.lines) : calc.lines[k] # <<>>) =>
                  (line # <<>> /\ line[Len(line)] = NL)

\* C39: readline splits the stream into lines without loss and in order,
\* every line but possibly the last ends with its only newline byte, and
\* once the data has all been returned readline returns the empty byte
\* string: it does not wait on the queue before it has returned it.
C39_ReadlineSplitsLosslessly ==
    /\ Lossless
    /\ LinesWellFormed
    /\ calc.blocked => \E i \in 1..Len(calc.lines) : calc.lines[i] = <<>>

====
